---- MODULE Spec2Model ----
(***************************************************************************)
(* The trading account ledger of                                           *)
(* src/tdd_engineering_team/output/1763177603/ega_accounts.py (class       *)
(* Account): cash balance, share holdings, the transaction log, and the    *)
(* read side (portfolio summary, transaction history).                     *)
(*                                                                         *)
(* Numbers.  Python amounts and prices are floats (cash_balance: float,    *)
(* price_per_share: float); quantities are ints.  A finite float (kind     *)
(* "int") is a whole number of units of a binary floating-point format     *)
(* scaled down from the 53 significant bits of binary64 to Mantissa bits,  *)
(* so that the rounding of +, - and * (round to nearest, ties to even)     *)
(* happens at the amounts explored.  The float specials nan, +inf and -inf *)
(* keep their IEEE-754 behaviour in comparisons and arithmetic; kind "str" *)
(* stands for any argument that is no int or float.  nan enters the       *)
(* explored states through arithmetic (inf - inf); as an argument it is    *)
(* tried where a property asks what a call would do.                       *)
(*                                                                         *)
(* Strings.  A symbol is a tuple of one-character strings, so that         *)
(* str.upper() and str.strip() are computed, not assumed.                  *)
(*                                                                         *)
(* Clock.  datetime.now() is a wall clock: two consecutive readings may be *)
(* equal.  Each recorded timestamp is the previous one plus 0 or 1.        *)
(*                                                                         *)
(* Oracle.  price_provider is a caller-supplied callable: each call        *)
(* returns a positive price, returns None, or raises.                      *)
(*                                                                         *)
(* Each method is an operator from the object's fields and the call's      *)
(* arguments to the call's outcome (return value or exception) and the     *)
(* fields afterwards; the action of a method applies that operator to the  *)
(* state.  A call that raises is a step that changes nothing.              *)
(*                                                                         *)
(* Threads.  Spec and SpecSteady are the ledger with one caller at a time. *)
(* SpecThreads is the ledger called from two threads: the class has no     *)
(* lock, so the statements of two calls interleave.                        *)
(*                                                                         *)
(* Front ends.  SpecRegistry is the first-generation ledger of             *)
(* src/.../1763108370 behind its front end, which keeps the accounts of    *)
(* the process by username, followed by the account creation of            *)
(* src/.../1763171346/aga_app.py, which keeps a set of usernames.          *)
(* SpecSession is one browser session of src/.../1763177603/app.py: its    *)
(* event handlers over the one Account the session holds.                  *)
(***************************************************************************)
EXTENDS Integers, Sequences, FiniteSets, TLC

(* ------------------------------ bounds -------------------------------- *)
\* a call that appends to the log is explored only while the log is shorter
MaxLog == 3

(* ------------------------------ values -------------------------------- *)
Int_(n) == [k |-> "int", v |-> n]
NaN == [k |-> "nan", v |-> 0]
PosInf == [k |-> "inf", v |-> 0]
NegInf == [k |-> "ninf", v |-> 0]
NotNum == [k |-> "str", v |-> 0]
None == [k |-> "none", v |-> 0]
OracleRaises == [k |-> "raise", v |-> 0]
NoSymbol == <<"None">>

\* isinstance(x, (int, float))
IsNumber(x) == x.k \in {"int", "nan", "inf", "ninf"}

\* isinstance(x, int)
IsInt(x) == x.k = "int"

\* Python's  a <= 0  on ints and floats
LeZero(a) ==
  CASE a.k = "int" -> a.v <= 0
    [] a.k = "ninf" -> TRUE
    [] OTHER -> FALSE

\* Python's  a > b  on ints and floats (every comparison with nan is False)
Gt(a, b) ==
  CASE a.k = "nan" \/ b.k = "nan" -> FALSE
    [] a.k = "inf" -> b.k # "inf"
    [] a.k = "ninf" -> FALSE
    [] b.k = "inf" -> FALSE
    [] b.k = "ninf" -> TRUE
    [] OTHER -> a.v > b.v

\* significant bits of a float (binary64 has 53)
Mantissa == 2

\* the spacing of the floats around n >= 0
RECURSIVE Unit(_)
Unit(n) == IF n < 2 ^ Mantissa THEN 1 ELSE 2 * Unit(n \div 2)

\* the float nearest to the real number n >= 0, ties to the even mantissa
RoundNat(n) ==
  LET u == Unit(n)
      lo == (n \div u) * u
  IN IF 2 * (n - lo) < u THEN lo
     ELSE IF 2 * (n - lo) > u THEN lo + u
     ELSE IF (n \div u) % 2 = 0 THEN lo ELSE lo + u

\* the float nearest to the real number n
Round(n) == IF n >= 0 THEN RoundNat(n) ELSE 0 - RoundNat(0 - n)

\* Python's  a + b  on floats
FAdd(a, b) ==
  CASE a.k = "nan" \/ b.k = "nan" -> NaN
    [] a.k = "inf" -> IF b.k = "ninf" THEN NaN ELSE PosInf
    [] a.k = "ninf" -> IF b.k = "inf" THEN NaN ELSE NegInf
    [] b.k = "inf" -> PosInf
    [] b.k = "ninf" -> NegInf
    [] OTHER -> Int_(Round(a.v + b.v))

\* Python's  -b
FNeg(b) ==
  CASE b.k = "inf" -> NegInf
    [] b.k = "ninf" -> PosInf
    [] b.k = "nan" -> NaN
    [] OTHER -> Int_(0 - b.v)

\* Python's  a - b  on floats
FSub(a, b) == FAdd(a, FNeg(b))

\* quantity * price for a positive int quantity and a positive finite price
FMul(q, p) == Int_(Round(q.v * p.v))

(* ------------------------------ symbols ------------------------------- *)
\* str.upper() on one character
UpperChar(c) ==
  CASE c = "a" -> "A"
    [] c = "b" -> "B"
    [] OTHER -> c

\* str.upper()
Upper(s) == [i \in 1..Len(s) |-> UpperChar(s[i])]

RECURSIVE LStrip(_)
LStrip(s) == IF s # <<>> /\ Head(s) = " " THEN LStrip(Tail(s)) ELSE s

RECURSIVE RStrip(_)
RStrip(s) ==
  IF s # <<>> /\ s[Len(s)] = " " THEN RStrip(SubSeq(s, 1, Len(s) - 1)) ELSE s

\* str.strip()
Strip(s) == RStrip(LStrip(s))

\* mutant of clean_symbol: the symbol is uppercased and not trimmed
clean_symbol_untrimmed(symbol) == Upper(symbol)

\* clean_symbol = symbol.upper().strip()
clean_symbol(symbol) == Strip(Upper(symbol))

(* ------------------------------ inputs -------------------------------- *)
\* finite amounts offered to __init__/deposit/withdraw
FiniteAmounts == {0 - 1, 0, 1, 2}

\* amounts offered: the finite ones, float('inf'), and a non-number
Amounts == {Int_(n) : n \in FiniteAmounts} \cup {PosInf, NotNum}

\* quantities offered to buy_shares/sell_shares
Quantities == {Int_(0), Int_(1), Int_(2), NotNum}

\* symbols as callers type them
RawSymbols == {<<"a", " ">>, <<"A">>, <<"b">>}

\* prices the oracle may quote
Prices == {Int_(1), Int_(2)}

\* what one call of price_provider may do
OracleResults == Prices \cup {None, OracleRaises}

(* ------------------------------- state -------------------------------- *)
VARIABLES
  created,       \* an Account object exists
  cash_balance,  \* self.cash_balance
  holdings,      \* self.holdings: normalized symbol -> quantity
  transactions,  \* self.transactions
  clock,         \* the last reading of datetime.now()
  calls_ok,      \* how many deposit/withdraw/buy_shares/sell_shares calls
                 \* have returned normally (kept for the log-length claim)
  threads,       \* for each caller thread: where it is in the method it
                 \* runs, and that method's local variables
  accounts,      \* the dict `accounts` of src/.../1763108370/app.py:
                 \* username -> first-generation Account
  usernames      \* usernames_state of src/.../1763171346/aga_app.py

vars ==
  <<created, cash_balance, holdings, transactions, clock, calls_ok, threads,
    accounts, usernames>>

\* the threads that call the methods of the one Account
Threads == {1, 2}

\* a thread that is in no method
Idle ==
  [pc |-> "idle", total |-> None, symbol |-> NoSymbol, quantity |-> None,
   price |-> None]

\* the object's fields
Self ==
  [cash_balance |-> cash_balance, holdings |-> holdings,
   transactions |-> transactions]

Init ==
  /\ created = FALSE
  /\ cash_balance = None
  /\ holdings = << >>
  /\ transactions = << >>
  /\ clock = 0
  /\ calls_ok = 0
  /\ threads = [t \in Threads |-> Idle]
  /\ accounts = << >>
  /\ usernames = {}

\* the readings datetime.now() may give next; the first reading is taken as
\* clock + 1 (only the order of the readings matters)
Now == IF created THEN {clock, clock + 1} ELSE {clock + 1}

\* holdings.get(symbol, 0)
HoldingsGet(h, symbol) == IF symbol \in DOMAIN h THEN h[symbol] ELSE 0

\* mutant of _record_transaction: the entry is built and not appended
record_transaction_dropped(log, ts, type, total, symbol, quantity, price) ==
  log

\* _record_transaction: build the entry and append it
record_transaction(log, ts, type, total_amount, symbol, quantity, price) ==
  Append(log,
    [timestamp |-> ts, type |-> type, symbol |-> symbol,
     quantity |-> quantity, price_per_share |-> price,
     total_amount |-> total_amount])

\* mutant of ValidAmount: the check is  amount < 0, so 0 is accepted
ValidAmountAcceptsZero(amount) ==
  IsNumber(amount) /\ (amount.k # "int" \/ amount.v >= 0) /\ amount.k # "ninf"

\* the amount check shared by __init__, deposit and withdraw
ValidAmount(amount) == IsNumber(amount) /\ ~LeZero(amount)

\* the quantity check shared by buy_shares and sell_shares
ValidQuantity(quantity) == IsInt(quantity) /\ ~LeZero(quantity)

\* a call that raises `error` after `calls` oracle calls: the fields are as
\* they were
Raised(self, error, calls) ==
  [outcome |-> error, ret |-> None, calls |-> calls, self |-> self]

\* a call that returns `ret` and leaves the fields `self`
Returned(self, ret, calls) ==
  [outcome |-> "ok", ret |-> ret, calls |-> calls, self |-> self]

(* ------------------------------ __init__ ------------------------------ *)
Account_init(initial_deposit, ts) ==
  IF ~ValidAmount(initial_deposit)
  THEN Raised(Self, "ValueError", 0)
  ELSE Returned(
         [cash_balance |-> initial_deposit,
          holdings |-> << >>,
          transactions |->
            record_transaction(<< >>, ts, "DEPOSIT", initial_deposit,
                               NoSymbol, None, None)],
         None, 0)

(* ------------------------------ deposit ------------------------------- *)
deposit(self, amount, ts) ==
  IF ~ValidAmount(amount)
  THEN Raised(self, "ValueError", 0)
  ELSE LET cash == FAdd(self.cash_balance, amount) IN
       Returned(
         [self EXCEPT
            !.cash_balance = cash,
            !.transactions =
              record_transaction(self.transactions, ts, "DEPOSIT", amount,
                                 NoSymbol, None, None)],
         cash, 0)

(* ------------------------------ withdraw ------------------------------ *)
\* mutant of InsufficientFunds: funds are sufficient while any cash is left
InsufficientFundsWhenBroke(needed, cash) == ~Gt(cash, Int_(0))

\* mutant of InsufficientFunds: the check is  needed >= self.cash_balance
InsufficientFundsAtBoundary(needed, cash) == Gt(needed, cash) \/ needed = cash

\* the funds check of withdraw and buy_shares:  needed > self.cash_balance
InsufficientFunds(needed, cash) == Gt(needed, cash)

\* mutant of withdraw: the balance is debited before the funds check
withdraw_debits_first(self, amount, ts) ==
  IF ~ValidAmount(amount)
  THEN Raised(self, "ValueError", 0)
  ELSE LET cash == FSub(self.cash_balance, amount)
           debited == [self EXCEPT !.cash_balance = cash]
       IN IF InsufficientFunds(amount, self.cash_balance)
          THEN Raised(debited, "InsufficientFundsError", 0)
          ELSE Returned(
                 [debited EXCEPT
                    !.transactions =
                      record_transaction(self.transactions, ts, "WITHDRAWAL",
                                         amount, NoSymbol, None, None)],
                 cash, 0)

withdraw(self, amount, ts) ==
  IF ~ValidAmount(amount)
  THEN Raised(self, "ValueError", 0)
  ELSE IF InsufficientFunds(amount, self.cash_balance)
  THEN Raised(self, "InsufficientFundsError", 0)
  ELSE LET cash == FSub(self.cash_balance, amount) IN
       Returned(
         [self EXCEPT
            !.cash_balance = cash,
            !.transactions =
              record_transaction(self.transactions, ts, "WITHDRAWAL", amount,
                                 NoSymbol, None, None)],
         cash, 0)

(* ----------------------------- buy_shares ----------------------------- *)
\* mutant of HoldingsAdd: the entry is overwritten, not added to
HoldingsAddOverwrites(h, clean, quantity) ==
  [s \in DOMAIN h \cup {clean} |-> IF s = clean THEN quantity ELSE h[s]]

\* self.holdings[clean] += quantity  on a defaultdict(int)
HoldingsAdd(h, clean, quantity) ==
  [s \in DOMAIN h \cup {clean} |->
     IF s = clean THEN HoldingsGet(h, clean) + quantity ELSE h[s]]

\* mutant of buy_shares: a symbol the oracle does not know is priced 0
buy_shares_unknown_is_free(self, symbol, quantity, price, ts) ==
  IF ~ValidQuantity(quantity)
  THEN Raised(self, "ValueError", 0)
  ELSE LET clean == clean_symbol(symbol)
           p == IF price = None THEN Int_(0) ELSE price
       IN
    IF price = OracleRaises THEN Raised(self, "OracleError", 1)
    ELSE LET total_cost == FMul(quantity, p) IN
      IF InsufficientFunds(total_cost, self.cash_balance)
      THEN Raised(self, "InsufficientFundsError", 1)
      ELSE Returned(
             [cash_balance |-> FSub(self.cash_balance, total_cost),
              holdings |-> HoldingsAdd(self.holdings, clean, quantity.v),
              transactions |->
                record_transaction(self.transactions, ts, "BUY", total_cost,
                                   clean, quantity, p)],
             [symbol |-> clean, quantity |-> quantity,
              price_per_share |-> p, total |-> total_cost],
             1)

\* mutant of buy_shares: the price is fetched a second time for the record,
\* and the oracle has moved by then
buy_shares_refetches(self, symbol, quantity, price, ts) ==
  IF ~ValidQuantity(quantity)
  THEN Raised(self, "ValueError", 0)
  ELSE LET clean == clean_symbol(symbol) IN
    IF price = OracleRaises THEN Raised(self, "OracleError", 1)
    ELSE IF price = None THEN Raised(self, "InvalidSymbolError", 1)
    ELSE LET total_cost == FMul(quantity, price)
             again == FAdd(price, Int_(1))
         IN
      IF InsufficientFunds(total_cost, self.cash_balance)
      THEN Raised(self, "InsufficientFundsError", 1)
      ELSE Returned(
             [cash_balance |-> FSub(self.cash_balance, total_cost),
              holdings |-> HoldingsAdd(self.holdings, clean, quantity.v),
              transactions |->
                record_transaction(self.transactions, ts, "BUY", total_cost,
                                   clean, quantity, again)],
             [symbol |-> clean, quantity |-> quantity,
              price_per_share |-> price, total |-> total_cost],
             2)

\* mutant of buy_shares: the price is fetched before the quantity is
\* validated
buy_shares_oracle_first(self, symbol, quantity, price, ts) ==
  LET clean == clean_symbol(symbol) IN
  IF price = OracleRaises THEN Raised(self, "OracleError", 1)
  ELSE IF price = None THEN Raised(self, "InvalidSymbolError", 1)
  ELSE IF ~ValidQuantity(quantity)
  THEN Raised(self, "ValueError", 1)
  ELSE LET total_cost == FMul(quantity, price) IN
    IF InsufficientFunds(total_cost, self.cash_balance)
    THEN Raised(self, "InsufficientFundsError", 1)
    ELSE Returned(
           [cash_balance |-> FSub(self.cash_balance, total_cost),
            holdings |-> HoldingsAdd(self.holdings, clean, quantity.v),
            transactions |->
              record_transaction(self.transactions, ts, "BUY", total_cost,
                                 clean, quantity, price)],
           [symbol |-> clean, quantity |-> quantity,
            price_per_share |-> price, total |-> total_cost],
           1)

\* `price` is what the oracle does if the call reaches it
buy_shares(self, symbol, quantity, price, ts) ==
  IF ~ValidQuantity(quantity)
  THEN Raised(self, "ValueError", 0)
  ELSE LET clean == clean_symbol(symbol) IN
    IF price = OracleRaises THEN Raised(self, "OracleError", 1)
    ELSE IF price = None THEN Raised(self, "InvalidSymbolError", 1)
    ELSE LET total_cost == FMul(quantity, price) IN
      IF InsufficientFunds(total_cost, self.cash_balance)
      THEN Raised(self, "InsufficientFundsError", 1)
      ELSE Returned(
             [cash_balance |-> FSub(self.cash_balance, total_cost),
              holdings |-> HoldingsAdd(self.holdings, clean, quantity.v),
              transactions |->
                record_transaction(self.transactions, ts, "BUY", total_cost,
                                   clean, quantity, price)],
             [symbol |-> clean, quantity |-> quantity,
              price_per_share |-> price, total |-> total_cost],
             1)

(* ----------------------------- sell_shares ---------------------------- *)
\* mutant of HoldingsRemove: the entry is kept when it reaches 0
HoldingsRemoveKeepsZero(h, clean, quantity) ==
  [s \in DOMAIN h |-> IF s = clean THEN h[clean] - quantity ELSE h[s]]

\* mutant of HoldingsRemove: a sale closes the whole position
HoldingsRemoveAll(h, clean, quantity) ==
  [s \in DOMAIN h \ {clean} |-> h[s]]

\* self.holdings[clean] -= quantity; the entry is deleted when it is 0
HoldingsRemove(h, clean, quantity) ==
  LET left == h[clean] - quantity IN
  [s \in (IF left = 0 THEN DOMAIN h \ {clean} ELSE DOMAIN h) |->
     IF s = clean THEN left ELSE h[s]]

\* the shares check:  quantity > owned_quantity
InsufficientShares(quantity, owned) == quantity > owned

\* mutant of sell_shares: the oracle is consulted before the shares check
sell_shares_oracle_first(self, symbol, quantity, price, ts) ==
  IF ~ValidQuantity(quantity)
  THEN Raised(self, "ValueError", 0)
  ELSE LET clean == clean_symbol(symbol) IN
    IF price = OracleRaises THEN Raised(self, "OracleError", 1)
    ELSE IF price = None THEN Raised(self, "InvalidSymbolError", 1)
    ELSE IF InsufficientShares(quantity.v, HoldingsGet(self.holdings, clean))
    THEN Raised(self, "InsufficientSharesError", 1)
    ELSE LET total_proceeds == FMul(quantity, price) IN
      Returned(
        [cash_balance |-> FAdd(self.cash_balance, total_proceeds),
         holdings |-> HoldingsRemove(self.holdings, clean, quantity.v),
         transactions |->
           record_transaction(self.transactions, ts, "SELL", total_proceeds,
                              clean, quantity, price)],
        [symbol |-> clean, quantity |-> quantity,
         price_per_share |-> price, total |-> total_proceeds],
        1)

\* mutant of sell_shares: the proceeds are taken from the balance
sell_shares_debits(self, symbol, quantity, price, ts) ==
  IF ~ValidQuantity(quantity)
  THEN Raised(self, "ValueError", 0)
  ELSE LET clean == clean_symbol(symbol) IN
    IF InsufficientShares(quantity.v, HoldingsGet(self.holdings, clean))
    THEN Raised(self, "InsufficientSharesError", 0)
    ELSE IF price = OracleRaises THEN Raised(self, "OracleError", 1)
    ELSE IF price = None THEN Raised(self, "InvalidSymbolError", 1)
    ELSE LET total_proceeds == FMul(quantity, price) IN
      Returned(
        [cash_balance |-> FSub(self.cash_balance, total_proceeds),
         holdings |-> HoldingsRemove(self.holdings, clean, quantity.v),
         transactions |->
           record_transaction(self.transactions, ts, "SELL", total_proceeds,
                              clean, quantity, price)],
        [symbol |-> clean, quantity |-> quantity,
         price_per_share |-> price, total |-> total_proceeds],
        1)

\* mutant of sell_shares: shares without a price are sold for nothing
\* (price = provider(symbol) or 0.0)
sell_shares_unpriced_at_zero(self, symbol, quantity, price, ts) ==
  IF ~ValidQuantity(quantity)
  THEN Raised(self, "ValueError", 0)
  ELSE LET clean == clean_symbol(symbol) IN
    IF InsufficientShares(quantity.v, HoldingsGet(self.holdings, clean))
    THEN Raised(self, "InsufficientSharesError", 0)
    ELSE IF price = OracleRaises THEN Raised(self, "OracleError", 1)
    ELSE LET p == IF price = None THEN Int_(0) ELSE price
             total_proceeds == FMul(quantity, p)
         IN
      Returned(
        [cash_balance |-> FAdd(self.cash_balance, total_proceeds),
         holdings |-> HoldingsRemove(self.holdings, clean, quantity.v),
         transactions |->
           record_transaction(self.transactions, ts, "SELL", total_proceeds,
                              clean, quantity, p)],
        [symbol |-> clean, quantity |-> quantity,
         price_per_share |-> p, total |-> total_proceeds],
        1)

sell_shares(self, symbol, quantity, price, ts) ==
  IF ~ValidQuantity(quantity)
  THEN Raised(self, "ValueError", 0)
  ELSE LET clean == clean_symbol(symbol) IN
    IF InsufficientShares(quantity.v, HoldingsGet(self.holdings, clean))
    THEN Raised(self, "InsufficientSharesError", 0)
    ELSE IF price = OracleRaises THEN Raised(self, "OracleError", 1)
    ELSE IF price = None THEN Raised(self, "InvalidSymbolError", 1)
    ELSE LET total_proceeds == FMul(quantity, price) IN
      Returned(
        [cash_balance |-> FAdd(self.cash_balance, total_proceeds),
         holdings |-> HoldingsRemove(self.holdings, clean, quantity.v),
         transactions |->
           record_transaction(self.transactions, ts, "SELL", total_proceeds,
                              clean, quantity, price)],
        [symbol |-> clean, quantity |-> quantity,
         price_per_share |-> price, total |-> total_proceeds],
        1)

(* ------------------------ get_transaction_history --------------------- *)
\* one step of a stable descending sort: x goes behind every entry whose
\* timestamp is >= its own
RECURSIVE InsertDesc(_, _)
InsertDesc(sorted, x) ==
  IF sorted = << >> THEN <<x>>
  ELSE IF Head(sorted).timestamp >= x.timestamp
       THEN <<Head(sorted)>> \o InsertDesc(Tail(sorted), x)
       ELSE <<x>> \o sorted

\* sorted(log, key=timestamp, reverse=True): descending, and stable (entries
\* with equal timestamps keep their order in log)
RECURSIVE SortedByTimestampDesc(_)
SortedByTimestampDesc(log) ==
  IF log = << >> THEN << >>
  ELSE InsertDesc(SortedByTimestampDesc(SubSeq(log, 1, Len(log) - 1)),
                  log[Len(log)])

\* mutant of get_transaction_history: the list is sorted in place
get_transaction_history_in_place(self) ==
  Returned([self EXCEPT !.transactions = SortedByTimestampDesc(@)],
           SortedByTimestampDesc(self.transactions), 0)

\* return sorted(self.transactions, ...): a new list
get_transaction_history(self) ==
  Returned(self, SortedByTimestampDesc(self.transactions), 0)

\* The entries are dicts, and the list that get_transaction_history returns
\* holds the very dicts that self.transactions holds: an entry of the result
\* is a reference, here the position of the dict in self.transactions.
RECURSIVE InsertRefDesc(_, _, _)
InsertRefDesc(log, sorted, j) ==
  IF sorted = << >> THEN <<j>>
  ELSE IF log[Head(sorted)].timestamp >= log[j].timestamp
       THEN <<Head(sorted)>> \o InsertRefDesc(log, Tail(sorted), j)
       ELSE <<j>> \o sorted

\* the references in the order of sorted(..., reverse=True), for the first n
\* entries of log
RECURSIVE SortedRefsDesc(_, _)
SortedRefsDesc(log, n) ==
  IF n = 0 THEN << >>
  ELSE InsertRefDesc(log, SortedRefsDesc(log, n - 1), n)

\* the list object that get_transaction_history returns
HistoryRefs(self) == SortedRefsDesc(self.transactions, Len(self.transactions))

\* the caller does  del history[i]  or reorders the list: the list is the
\* caller's own, the ledger's list is another object
caller_removes_entry(self, history, i) == self

\* the caller does  history[i]['total_amount'] = amount: the dict is the one
\* in self.transactions
caller_alters_entry(self, history, i, amount) ==
  [self EXCEPT !.transactions[history[i]].total_amount = amount]

(* ------------------------ get_portfolio_summary ----------------------- *)
\* sum(tx['total_amount'] for tx in log if tx['type'] == type)
RECURSIVE SumOfType(_, _)
SumOfType(log, type) ==
  IF log = << >> THEN Int_(0)
  ELSE LET front == SumOfType(SubSeq(log, 1, Len(log) - 1), type)
           tx == log[Len(log)]
       IN IF tx.type = type THEN FAdd(front, tx.total_amount) ELSE front

\* mutant of NetDeposits: the withdrawals are left out
NetDepositsGross(log) == SumOfType(log, "DEPOSIT")

\* net_deposits: the deposits minus the withdrawals of the log
NetDeposits(log) ==
  FSub(SumOfType(log, "DEPOSIT"), SumOfType(log, "WITHDRAWAL"))

\* price = self._price_provider(symbol) or 0.0
PriceOrZero(p) == IF p = None THEN Int_(0) ELSE p

\* total_shares_value accumulated over the holdings
RECURSIVE SharesValue(_, _, _)
SharesValue(h, prices, symbols) ==
  IF symbols = {} THEN Int_(0)
  ELSE LET s == CHOOSE x \in symbols : TRUE IN
       FAdd(SharesValue(h, prices, symbols \ {s}),
            FMul(Int_(h[s]), PriceOrZero(prices[s])))

\* the symbols of the BUY and SELL entries of a log
TradedSymbols(log) ==
  {log[i].symbol : i \in {j \in 1..Len(log) : log[j].type \in {"BUY", "SELL"}}}

\* mutant of get_portfolio_summary: it looks up self.holdings[symbol] for
\* every symbol of the log, and the defaultdict inserts the missing keys
get_portfolio_summary_inserts_keys(self, prices) ==
  LET h == self.holdings
      touched == [s \in DOMAIN h \cup TradedSymbols(self.transactions) |->
                    HoldingsGet(h, s)]
      calls == Cardinality(DOMAIN h)
  IN
  IF \E s \in DOMAIN h : prices[s] = OracleRaises
  THEN Raised([self EXCEPT !.holdings = touched], "OracleError", calls)
  ELSE
    LET total_shares_value == SharesValue(h, prices, DOMAIN h)
        net_deposits == NetDeposits(self.transactions)
        total_portfolio_value == FAdd(self.cash_balance, total_shares_value)
    IN Returned([self EXCEPT !.holdings = touched],
         [cash_balance |-> self.cash_balance,
          net_deposits |-> net_deposits,
          holdings_with_prices |->
            [s \in DOMAIN h |->
               [quantity |-> h[s], price |-> PriceOrZero(prices[s]),
                value |-> FMul(Int_(h[s]), PriceOrZero(prices[s]))]],
          total_portfolio_value |-> total_portfolio_value,
          total_shares_value |-> total_shares_value,
          profit_loss |-> FSub(total_portfolio_value, net_deposits)],
         calls)

\* mutant of get_portfolio_summary: a holding whose price is unknown is left
\* out of the listing
get_portfolio_summary_hides_unpriced(self, prices) ==
  LET h == self.holdings
      priced == {s \in DOMAIN h : prices[s] # None}
      calls == Cardinality(DOMAIN h)
  IN
  IF \E s \in DOMAIN h : prices[s] = OracleRaises
  THEN Raised(self, "OracleError", calls)
  ELSE
    LET total_shares_value == SharesValue(h, prices, DOMAIN h)
        net_deposits == NetDeposits(self.transactions)
        total_portfolio_value == FAdd(self.cash_balance, total_shares_value)
    IN Returned(self,
         [cash_balance |-> self.cash_balance,
          net_deposits |-> net_deposits,
          holdings_with_prices |->
            [s \in priced |->
               [quantity |-> h[s], price |-> prices[s],
                value |-> FMul(Int_(h[s]), prices[s])]],
          total_portfolio_value |-> total_portfolio_value,
          total_shares_value |-> total_shares_value,
          profit_loss |-> FSub(total_portfolio_value, net_deposits)],
         calls)

\* `prices` is what the oracle does for each held symbol; the listing is
\* keyed by symbol (its order, the dict's insertion order, is not modelled:
\* with at most two symbols held the rounded sum does not depend on it)
get_portfolio_summary(self, prices) ==
  LET h == self.holdings
      calls == Cardinality(DOMAIN h)
  IN
  IF \E s \in DOMAIN h : prices[s] = OracleRaises
  THEN Raised(self, "OracleError", calls)
  ELSE
    LET total_shares_value == SharesValue(h, prices, DOMAIN h)
        net_deposits == NetDeposits(self.transactions)
        total_portfolio_value == FAdd(self.cash_balance, total_shares_value)
    IN Returned(self,
         [cash_balance |-> self.cash_balance,
          net_deposits |-> net_deposits,
          holdings_with_prices |->
            [s \in DOMAIN h |->
               [quantity |-> h[s], price |-> PriceOrZero(prices[s]),
                value |-> FMul(Int_(h[s]), PriceOrZero(prices[s]))]],
          total_portfolio_value |-> total_portfolio_value,
          total_shares_value |-> total_shares_value,
          profit_loss |-> FSub(total_portfolio_value, net_deposits)],
         calls)

\* get_portfolio_summary as generated in src/.../1763111947/accounts.py, a
\* ledger with the same fields and the same mutating methods: profit_loss is
\* taken against total_deposits
get_portfolio_summary_1763111947(self, prices) ==
  LET h == self.holdings
      calls == Cardinality(DOMAIN h)
  IN
  IF \E s \in DOMAIN h : prices[s] = OracleRaises
  THEN Raised(self, "OracleError", calls)
  ELSE
    LET total_shares_value == SharesValue(h, prices, DOMAIN h)
        total_portfolio_value == FAdd(self.cash_balance, total_shares_value)
        total_deposits == SumOfType(self.transactions, "DEPOSIT")
    IN Returned(self,
         [cash_balance |-> self.cash_balance,
          total_deposits |-> total_deposits,
          holdings |-> [s \in DOMAIN h |-> h[s]],
          total_shares_value |-> total_shares_value,
          total_portfolio_value |-> total_portfolio_value,
          profit_loss |-> FSub(total_portfolio_value, total_deposits)],
         calls)

\* get_portfolio_summary as generated in src/.../1763171346/ega_accounts.py:
\* a holding whose price is None adds nothing to total_shares_value and is
\* listed with its quantity
get_portfolio_summary_1763171346(self, prices) ==
  LET h == self.holdings
      calls == Cardinality(DOMAIN h)
  IN
  IF \E s \in DOMAIN h : prices[s] = OracleRaises
  THEN Raised(self, "OracleError", calls)
  ELSE
    LET total_shares_value == SharesValue(h, prices, DOMAIN h)
        total_portfolio_value == FAdd(self.cash_balance, total_shares_value)
        net_deposits == NetDeposits(self.transactions)
    IN Returned(self,
         [cash_balance |-> self.cash_balance,
          net_deposits |-> net_deposits,
          holdings |-> [s \in DOMAIN h |-> h[s]],
          total_portfolio_value |-> total_portfolio_value,
          total_shares_value |-> total_shares_value,
          profit_loss |-> FSub(total_portfolio_value, net_deposits)],
         calls)

(* ----------------- the first-generation ledger (1763108370) ------------ *)
\* src/.../1763108370/accounts.py: an Account holds balance, holdings,
\* transactions and initial_deposit (username, email and password are set
\* once and never read).  Its buy_shares takes the price source as an
\* argument and does not normalize the symbol.

\* stock_prices, the table inside get_share_price (AAPL, TSLA, ... there)
stock_prices == (<<"A">> :> Int_(1)) @@ (<<"B">> :> Int_(2))

\* get_share_price(symbol) = stock_prices.get(symbol, 0)
get_share_price_1763108370(symbol) ==
  IF symbol \in DOMAIN stock_prices THEN stock_prices[symbol] ELSE Int_(0)

\* Account.__init__
Account_1763108370 ==
  [balance |-> Int_(0), holdings |-> << >>, transactions |-> << >>,
   initial_deposit |-> Int_(0)]

\* Account.deposit_funds
deposit_funds_1763108370(self, amount) ==
  IF ~IsNumber(amount) THEN Raised(self, "TypeError", 0)
  ELSE IF LeZero(amount) THEN Raised(self, "InvalidDepositAmount", 0)
  ELSE Returned(
         [self EXCEPT
            !.balance = FAdd(self.balance, amount),
            !.initial_deposit = FAdd(self.initial_deposit, amount),
            !.transactions =
              Append(self.transactions,
                     [type |-> "Deposit", amount |-> amount])],
         None, 0)

\* Account.buy_shares(symbol, quantity, get_share_price): `price` is what
\* get_share_price(symbol) returns
buy_shares_1763108370(self, symbol, quantity, price) ==
  IF ~IsNumber(quantity) THEN Raised(self, "TypeError", 0)
  ELSE IF LeZero(quantity) THEN Raised(self, "InvalidQuantity", 0)
  ELSE
    LET total_cost == FMul(price, quantity) IN
    IF Gt(total_cost, self.balance)
    THEN Raised(self, "InsufficientFunds", 1)
    ELSE Returned(
           [self EXCEPT
              !.balance = FSub(self.balance, total_cost),
              !.holdings =
                HoldingsAdd(self.holdings, symbol, quantity.v),
              !.transactions =
                Append(self.transactions,
                       [type |-> "Buy", symbol |-> symbol,
                        quantity |-> quantity, price_per_share |-> price,
                        total_cost |-> total_cost])],
           None, 1)

(* ------------------ the registry front end (1763108370) ---------------- *)
\* src/.../1763108370/app.py keeps the accounts of the process in the
\* module-level dict `accounts`, keyed by username.  A text field is a
\* tuple of one-character strings.
Digits == {"0", "1", "2", "3", "4", "5", "6", "7", "8", "9"}

Letters ==
  {"a", "b", "c", "d", "e", "f", "g", "h", "i", "j", "k", "l", "m", "n",
   "o", "p", "q", "r", "s", "t", "u", "v", "w", "x", "y", "z",
   "A", "B", "C", "D", "E", "F", "G", "H", "I", "J", "K", "L", "M", "N",
   "O", "P", "Q", "R", "S", "T", "U", "V", "W", "X", "Y", "Z"}

\* len(password) >= 8, a digit, and a character that is not alphanumeric
StrongPassword(password) ==
  /\ Len(password) >= 8
  /\ \E i \in 1..Len(password) : password[i] \in Digits
  /\ \E i \in 1..Len(password) : password[i] \notin Digits \cup Letters

\* what a front-end function answers: success and message, and the registry
\* afterwards
Response(success, message, registry) ==
  [success |-> success, message |-> message, accounts |-> registry]

\* mutant of create_account: a registered username is bound again
create_account_rebinds(registry, username, email, password, confirm_password) ==
  IF username = << >> \/ email = << >> \/ password = << >>
     \/ confirm_password = << >>
  THEN Response(FALSE, "All mandatory fields are required.", registry)
  ELSE IF password # confirm_password
  THEN Response(FALSE, "Passwords do not match.", registry)
  ELSE IF ~StrongPassword(password)
  THEN Response(FALSE, "Password must be at least 8 characters long", registry)
  ELSE Response(TRUE, "Your account has been created!",
                [u \in DOMAIN registry \cup {username} |->
                   IF u = username THEN Account_1763108370 ELSE registry[u]])

\* create_account(username, email, password, confirm_password)
create_account(registry, username, email, password, confirm_password) ==
  IF username = << >> \/ email = << >> \/ password = << >>
     \/ confirm_password = << >>
  THEN Response(FALSE, "All mandatory fields are required.", registry)
  ELSE IF password # confirm_password
  THEN Response(FALSE, "Passwords do not match.", registry)
  ELSE IF ~StrongPassword(password)
  THEN Response(FALSE, "Password must be at least 8 characters long", registry)
  ELSE IF username \in DOMAIN registry
  THEN Response(FALSE, "Username already exists.", registry)
  ELSE Response(TRUE, "Your account has been created!",
                [u \in DOMAIN registry \cup {username} |->
                   IF u = username THEN Account_1763108370 ELSE registry[u]])

\* the front end's deposit_funds(username, amount): every exception of the
\* ledger call is caught and reported
app_deposit_funds(registry, username, amount) ==
  IF username \notin DOMAIN registry
  THEN Response(FALSE, "Account not found.", registry)
  ELSE LET r == deposit_funds_1763108370(registry[username], amount) IN
       IF r.outcome = "ok"
       THEN Response(TRUE, "Funds successfully deposited!",
                     [registry EXCEPT ![username] = r.self])
       ELSE Response(FALSE, r.outcome, registry)

\* the front end's buy_shares(username, symbol, quantity): app.py imports
\* Account only, so the argument get_share_price is an undefined name and
\* the NameError is caught and reported before the ledger is called
app_buy_shares(registry, username, symbol, quantity) ==
  IF username \notin DOMAIN registry
  THEN Response(FALSE, "Account not found.", registry)
  ELSE Response(FALSE, "NameError", registry)

(* ------------------- the session front end (1763177603) ---------------- *)
\* src/.../1763177603/app.py holds one Account per browser session in
\* account_state and calls the ledger of src/.../1763171346/accounts.py
\* with its own get_share_price as the price provider.

\* the table `prices` inside get_share_price (AAPL, TSLA, GOOGL there)
app_prices == (<<"A">> :> Int_(1)) @@ (<<"B">> :> Int_(2))

\* get_share_price(symbol) = prices.get(symbol.upper().strip())
get_share_price(symbol) ==
  IF Strip(Upper(symbol)) \in DOMAIN app_prices
  THEN app_prices[Strip(Upper(symbol))]
  ELSE None

\* a gr.Number holding n + 0.5
Half(n) == [k |-> "half", v |-> n]

\* Python's truth value of a gr.Number value: None and 0 are false
Truthy(x) == x # None /\ x # Int_(0)

\* Python's  x > 0  on what a gr.Number holds
GtZero(x) ==
  CASE x.k = "int" -> x.v > 0
    [] x.k = "half" -> x.v >= 0
    [] x.k = "inf" -> TRUE
    [] OTHER -> FALSE

\* isinstance(account, Account): account_state holds None until an account
\* is created
IsAccount(account) == account.cash_balance # None

\* refresh_portfolio_view(account): `prices` is what the provider answers
\* inside account.get_portfolio_summary(), `later` what get_share_price
\* answers in the loop over summary['holdings'] that fills the table.  The
\* result is what is put on the screen (the amounts before format_currency).
refresh_portfolio_view(account, prices, later) ==
  LET summary == get_portfolio_summary_1763171346(account, prices).ret IN
  [p_total_value |-> summary.total_portfolio_value,
   p_profit_loss |-> summary.profit_loss,
   p_cash_balance |-> summary.cash_balance,
   cm_cash_balance |-> summary.cash_balance,
   p_holdings_df |->
     [s \in DOMAIN summary.holdings |->
        [quantity |-> summary.holdings[s],
         price |-> PriceOrZero(later[s]),
         total_value |->
           FMul(Int_(summary.holdings[s]), PriceOrZero(later[s]))]]]

\* the view as the handlers produce it: both lookups go to get_share_price
View(account) ==
  refresh_portfolio_view(account,
    [s \in DOMAIN account.holdings |-> get_share_price(s)],
    [s \in DOMAIN account.holdings |-> get_share_price(s)])

\* what a handler returns: the status shown, the value of account_state
\* afterwards (the handler's own update, or the value it had), the number
\* of calls of ledger methods made, and the portfolio view if it is redrawn
Handled(status, account, ops) ==
  [outcome |-> status, self |-> account, ops |-> ops,
   view |-> IF status = "ok" THEN View(account) ELSE << >>]

\* handle_create_account(username, password, initial_deposit)
handle_create_account(account, username, password, initial_deposit, ts) ==
  IF username = << >> \/ password = << >>
  THEN Handled("Error: Username and password are required.", account, 0)
  ELSE IF initial_deposit = None
  THEN Handled("TypeError", account, 0)
  ELSE LET r == Account_init(initial_deposit, ts) IN
       IF r.outcome = "ok" THEN Handled("ok", r.self, 1)
       ELSE Handled(r.outcome, account, 1)

\* mutant of handle_deposit: without an account the deposit opens one
handle_deposit_opens_account(account, amount, ts) ==
  IF ~Truthy(amount) \/ LeZero(amount)
  THEN Handled("Error: Amount must be a positive number.", account, 0)
  ELSE LET r == IF IsAccount(account) THEN deposit(account, amount, ts)
                ELSE Account_init(amount, ts)
       IN IF r.outcome = "ok" THEN Handled("ok", r.self, 1)
          ELSE Handled(r.outcome, account, 1)

\* handle_deposit(account, amount)
handle_deposit(account, amount, ts) ==
  IF ~IsAccount(account)
  THEN Handled("Error: No active account.", account, 0)
  ELSE IF ~Truthy(amount) \/ LeZero(amount)
  THEN Handled("Error: Amount must be a positive number.", account, 0)
  ELSE LET r == deposit(account, amount, ts) IN
       IF r.outcome = "ok" THEN Handled("ok", r.self, 1)
       ELSE Handled(r.outcome, account, 1)

\* handle_withdraw(account, amount)
handle_withdraw(account, amount, ts) ==
  IF ~IsAccount(account)
  THEN Handled("Error: No active account.", account, 0)
  ELSE IF ~Truthy(amount) \/ LeZero(amount)
  THEN Handled("Error: Amount must be a positive number.", account, 0)
  ELSE LET r == withdraw(account, amount, ts) IN
       IF r.outcome = "ok" THEN Handled("ok", r.self, 1)
       ELSE Handled(r.outcome, account, 1)

\* handle_trade(account, action, symbol, quantity): int(quantity) cuts the
\* fraction off and raises OverflowError for inf
handle_trade(account, action, symbol, quantity, ts) ==
  IF ~IsAccount(account)
  THEN Handled("Error: No active account.", account, 0)
  ELSE IF symbol = << >> \/ ~Truthy(quantity) \/ ~GtZero(quantity)
  THEN Handled("Error: Stock Symbol and a positive Quantity are required.",
               account, 0)
  ELSE IF quantity.k = "inf"
  THEN Handled("OverflowError", account, 0)
  ELSE LET price == get_share_price(clean_symbol(symbol))
           r == IF action = "BUY"
                THEN buy_shares(account, symbol, Int_(quantity.v), price, ts)
                ELSE sell_shares(account, symbol, Int_(quantity.v), price,
                                 ts)
       IN IF r.outcome = "ok" THEN Handled("ok", r.self, 1)
          ELSE Handled(r.outcome, account, 1)

(* ------------------------------ actions ------------------------------- *)
\* the clock readings a call takes: datetime.now() is read only when an
\* entry is recorded
Readings(r) == IF r.outcome = "ok" /\ r.self.transactions # transactions
               THEN Now ELSE {clock}

\* what the oracle may do in a call: nothing when the call does not reach it
Answers(r) == IF r.calls = 0 THEN {None} ELSE OracleResults

\* the fields after a call that one thread makes while no other thread is in
\* a method
Apply(r, ts) ==
  /\ Len(r.self.transactions) <= MaxLog
  /\ cash_balance' = r.self.cash_balance
  /\ holdings' = r.self.holdings
  /\ transactions' = r.self.transactions
  /\ clock' = ts
  /\ threads' = threads
  /\ UNCHANGED <<accounts, usernames>>

\* a deposit/withdraw/buy_shares/sell_shares call is counted when it returns
Count(r) == calls_ok' = IF r.outcome = "ok" THEN calls_ok + 1 ELSE calls_ok

Create ==
  /\ ~created
  /\ \E a \in Amounts :
       \E ts \in Readings(Account_init(a, clock)) :
         LET r == Account_init(a, ts) IN
         /\ created' = (r.outcome = "ok")
         /\ Apply(r, ts)
         /\ UNCHANGED calls_ok

Deposit ==
  /\ created
  /\ \E a \in Amounts :
       \E ts \in Readings(deposit(Self, a, clock)) :
         /\ Apply(deposit(Self, a, ts), ts)
         /\ Count(deposit(Self, a, ts))
  /\ UNCHANGED created

Withdraw ==
  /\ created
  /\ \E a \in Amounts :
       \E ts \in Readings(withdraw(Self, a, clock)) :
         /\ Apply(withdraw(Self, a, ts), ts)
         /\ Count(withdraw(Self, a, ts))
  /\ UNCHANGED created

Buy ==
  /\ created
  /\ \E s \in RawSymbols, q \in Quantities :
       \E p \in Answers(buy_shares(Self, s, q, OracleRaises, clock)) :
         \E ts \in Readings(buy_shares(Self, s, q, p, clock)) :
           /\ Apply(buy_shares(Self, s, q, p, ts), ts)
           /\ Count(buy_shares(Self, s, q, p, ts))
  /\ UNCHANGED created

Sell ==
  /\ created
  /\ \E s \in RawSymbols, q \in Quantities :
       \E p \in Answers(sell_shares(Self, s, q, OracleRaises, clock)) :
         \E ts \in Readings(sell_shares(Self, s, q, p, clock)) :
           /\ Apply(sell_shares(Self, s, q, p, ts), ts)
           /\ Count(sell_shares(Self, s, q, p, ts))
  /\ UNCHANGED created

History ==
  /\ created
  /\ Apply(get_transaction_history(Self), clock)
  /\ UNCHANGED <<created, calls_ok>>

Summary ==
  /\ created
  /\ \E prices \in [DOMAIN holdings -> OracleResults] :
       Apply(get_portfolio_summary(Self, prices), clock)
  /\ UNCHANGED <<created, calls_ok>>

Next ==
  \/ Create
  \/ Deposit
  \/ Withdraw
  \/ Buy
  \/ Sell
  \/ History
  \/ Summary

Spec == Init /\ [][Next]_vars

(* --------------------------- the steady clock -------------------------- *)
\* _record_transaction of src/.../1763171346/accounts.py, whose methods are
\* otherwise those above, sleeps 1 ms before it reads the clock: every
\* recorded timestamp is later than the one before
Steady == transactions' # transactions => clock' = clock + 1

NextSteady ==
  \/ Create /\ Steady
  \/ Deposit /\ Steady
  \/ Withdraw /\ Steady
  \/ Buy /\ Steady
  \/ Sell /\ Steady
  \/ History /\ Steady
  \/ Summary /\ Steady

\* the ledger with unique timestamps
SpecSteady == Init /\ [][NextSteady]_vars

(* ------------------------- concurrent callers -------------------------- *)
\* Account has no lock: when two threads call methods of one Account, the
\* interpreter may switch threads between any two statements of a method
\* (and does so when the price provider blocks).  A step below is a maximal
\* run of statements of which only the last reads or writes a field of the
\* object; the argument checks and the provider call touch no field, so a
\* provider call is taken together with the statement after it.
\* a method is entered only while the log has room for the entry of every
\* call under way
Room ==
  Len(transactions) + Cardinality({t \in Threads : threads[t].pc # "idle"})
    < MaxLog

\* thread t has passed the checks of a method and is at pc
Enter(t, pc, total, symbol, quantity, price) ==
  threads' = [threads EXCEPT ![t] =
                [pc |-> pc, total |-> total, symbol |-> symbol,
                 quantity |-> quantity, price |-> price]]

\* thread t goes on to the statement at pc
Goto(t, pc) == threads' = [threads EXCEPT ![t].pc = pc]

\* thread t returns from its method, which is counted
Return(t) ==
  /\ threads' = [threads EXCEPT ![t] = Idle]
  /\ calls_ok' = calls_ok + 1

\* self._record_transaction(...) by thread t, the last statement before the
\* return
Record(t, type) ==
  /\ \E ts \in Now :
       /\ transactions' =
            record_transaction(transactions, ts, type, threads[t].total,
                               threads[t].symbol, threads[t].quantity,
                               threads[t].price)
       /\ clock' = ts
  /\ Return(t)
  /\ UNCHANGED <<accounts, usernames>>
  /\ UNCHANGED <<created, cash_balance, holdings>>

\* withdraw up to the funds check: the check reads cash_balance
WithdrawCheck ==
  /\ created
  /\ \E t \in Threads, a \in Amounts :
       /\ threads[t].pc = "idle"
       /\ Room
       /\ IF ValidAmount(a) /\ ~InsufficientFunds(a, cash_balance)
          THEN Enter(t, "withdraw_debit", a, NoSymbol, None, None)
          ELSE UNCHANGED threads
  /\ UNCHANGED <<accounts, usernames>>
  /\ UNCHANGED <<created, cash_balance, holdings, transactions, clock,
                 calls_ok>>

\* self.cash_balance -= amount
WithdrawDebit ==
  /\ \E t \in Threads :
       /\ threads[t].pc = "withdraw_debit"
       /\ cash_balance' = FSub(cash_balance, threads[t].total)
       /\ Goto(t, "withdraw_record")
  /\ UNCHANGED <<accounts, usernames>>
  /\ UNCHANGED <<created, holdings, transactions, clock, calls_ok>>

WithdrawRecord ==
  \E t \in Threads :
    threads[t].pc = "withdraw_record" /\ Record(t, "WITHDRAWAL")

\* buy_shares up to the funds check: quantity check, provider call,
\* total_cost, and the check, which reads cash_balance
BuyCheck ==
  /\ created
  /\ \E t \in Threads, s \in RawSymbols, q \in Quantities,
        p \in OracleResults :
       /\ threads[t].pc = "idle"
       /\ Room
       /\ IF /\ ValidQuantity(q)
             /\ p \in Prices
             /\ ~InsufficientFunds(FMul(q, p), cash_balance)
          THEN Enter(t, "buy_debit", FMul(q, p), clean_symbol(s), q, p)
          ELSE UNCHANGED threads
  /\ UNCHANGED <<accounts, usernames>>
  /\ UNCHANGED <<created, cash_balance, holdings, transactions, clock,
                 calls_ok>>

\* self.cash_balance -= total_cost
BuyDebit ==
  /\ \E t \in Threads :
       /\ threads[t].pc = "buy_debit"
       /\ cash_balance' = FSub(cash_balance, threads[t].total)
       /\ Goto(t, "buy_hold")
  /\ UNCHANGED <<accounts, usernames>>
  /\ UNCHANGED <<created, holdings, transactions, clock, calls_ok>>

\* self.holdings[clean_symbol] += quantity
BuyHold ==
  /\ \E t \in Threads :
       /\ threads[t].pc = "buy_hold"
       /\ holdings' =
            HoldingsAdd(holdings, threads[t].symbol, threads[t].quantity.v)
       /\ Goto(t, "buy_record")
  /\ UNCHANGED <<accounts, usernames>>
  /\ UNCHANGED <<created, cash_balance, transactions, clock, calls_ok>>

BuyRecord ==
  \E t \in Threads : threads[t].pc = "buy_record" /\ Record(t, "BUY")

\* sell_shares up to the shares check, which reads holdings
SellCheck ==
  /\ created
  /\ \E t \in Threads, s \in RawSymbols, q \in Quantities :
       /\ threads[t].pc = "idle"
       /\ Room
       /\ IF /\ ValidQuantity(q)
             /\ ~InsufficientShares(q.v, HoldingsGet(holdings, clean_symbol(s)))
          THEN Enter(t, "sell_credit", None, clean_symbol(s), q, None)
          ELSE UNCHANGED threads
  /\ UNCHANGED <<accounts, usernames>>
  /\ UNCHANGED <<created, cash_balance, holdings, transactions, clock,
                 calls_ok>>

\* the provider call, total_proceeds, and self.cash_balance += total_proceeds
SellCredit ==
  /\ \E t \in Threads, p \in OracleResults :
       /\ threads[t].pc = "sell_credit"
       /\ IF p \in Prices
          THEN /\ cash_balance' = FAdd(cash_balance, FMul(threads[t].quantity, p))
               /\ threads' = [threads EXCEPT
                                ![t].pc = "sell_hold",
                                ![t].price = p,
                                ![t].total = FMul(threads[t].quantity, p)]
          ELSE /\ UNCHANGED cash_balance
               /\ threads' = [threads EXCEPT ![t] = Idle]
  /\ UNCHANGED <<accounts, usernames>>
  /\ UNCHANGED <<created, holdings, transactions, clock, calls_ok>>

\* self.holdings[clean_symbol] -= quantity, on a defaultdict(int): a key
\* that is gone by now counts as 0
SellHold ==
  /\ \E t \in Threads :
       LET clean == threads[t].symbol IN
       /\ threads[t].pc = "sell_hold"
       /\ holdings' =
            [s \in DOMAIN holdings \cup {clean} |->
               IF s = clean
               THEN HoldingsGet(holdings, clean) - threads[t].quantity.v
               ELSE holdings[s]]
       /\ Goto(t, "sell_delete")
  /\ UNCHANGED <<accounts, usernames>>
  /\ UNCHANGED <<created, cash_balance, transactions, clock, calls_ok>>

\* if self.holdings[clean_symbol] == 0: del self.holdings[clean_symbol]
SellDelete ==
  /\ \E t \in Threads :
       LET clean == threads[t].symbol IN
       /\ threads[t].pc = "sell_delete"
       /\ holdings' =
            IF HoldingsGet(holdings, clean) = 0
            THEN [s \in DOMAIN holdings \ {clean} |-> holdings[s]]
            ELSE holdings
       /\ Goto(t, "sell_record")
  /\ UNCHANGED <<accounts, usernames>>
  /\ UNCHANGED <<created, cash_balance, transactions, clock, calls_ok>>

SellRecord ==
  \E t \in Threads : threads[t].pc = "sell_record" /\ Record(t, "SELL")

NextThreads ==
  \/ Create
  \/ WithdrawCheck
  \/ WithdrawDebit
  \/ WithdrawRecord
  \/ BuyCheck
  \/ BuyDebit
  \/ BuyHold
  \/ BuyRecord
  \/ SellCheck
  \/ SellCredit
  \/ SellHold
  \/ SellDelete
  \/ SellRecord

\* two threads on one ledger
SpecThreads == Init /\ [][NextThreads]_vars

(* ------------------------- the registry front ends --------------------- *)
\* what is typed into the text fields
Usernames == {<< >>, <<"u">>, <<"v">>}

Emails == {<< >>, <<"e">>}

Passwords ==
  {<< >>, <<"p", "1", "#">>, <<"P", "a", "s", "s", "w", "1", "2", "3">>,
   <<"P", "a", "s", "s", "#", "1", "2", "3">>}

\* the entries of all logs of a registry
RECURSIVE Entries(_)
Entries(registry) ==
  IF DOMAIN registry = {} THEN 0
  ELSE LET u == CHOOSE n \in DOMAIN registry : TRUE IN
       Len(registry[u].transactions)
         + Entries([n \in DOMAIN registry \ {u} |-> registry[n]])

\* a step of src/.../1763108370: only the dict `accounts` changes, and a
\* call that appends to a log is explored only while the logs have room.
\* The two front ends are two programs that share nothing: a behaviour is a
\* run of the first followed by a run of the second.
Registry(registry) ==
  /\ usernames = {} /\ ~created
  /\ Entries(registry) <= MaxLog
  /\ accounts' = registry
  /\ UNCHANGED <<created, cash_balance, holdings, transactions, clock,
                 calls_ok, threads, usernames>>

CreateAccount ==
  \E u \in Usernames, e \in Emails, p \in Passwords, c \in Passwords :
    Registry(create_account(accounts, u, e, p, c).accounts)

DepositFunds ==
  \E u \in Usernames, a \in Amounts :
    Registry(app_deposit_funds(accounts, u, a).accounts)

AppBuyShares ==
  \E u \in Usernames, s \in RawSymbols, q \in Quantities :
    Registry(app_buy_shares(accounts, u, s, q).accounts)

\* Account.buy_shares called with the module's get_share_price
BuyShares ==
  \E u \in DOMAIN accounts, s \in RawSymbols, q \in Quantities :
    Registry([accounts EXCEPT ![u] =
                buy_shares_1763108370(accounts[u], s, q,
                                      get_share_price_1763108370(s)).self])

\* handle_create_account of src/.../1763171346/aga_app.py: `registered` is
\* the set usernames_state holds and `account` the value of account_state; a
\* component the handler returns no update for keeps its value
handle_create_account_1763171346(username, password, initial_deposit, registered, account, ts) ==
  IF username = << >> \/ password = << >>
  THEN [outcome |-> "empty", usernames |-> registered, account |-> account]
  ELSE IF username \in registered
  THEN [outcome |-> "taken", usernames |-> registered, account |-> account]
  ELSE LET r == Account_init(initial_deposit, ts) IN
       IF r.outcome = "ok"
       THEN [outcome |-> "ok", usernames |-> registered \cup {username},
             account |-> r.self]
       ELSE [outcome |-> r.outcome, usernames |-> registered,
             account |-> account]

\* the handler in one session; _record_transaction of
\* src/.../1763171346/accounts.py reads the clock after a sleep
HandleCreateAccount_1763171346 ==
  /\ Entries(accounts) < MaxLog
  /\ \E u \in Usernames, p \in {<< >>, <<"p", "1", "#">>}, d \in Amounts :
       LET h == handle_create_account_1763171346(u, p, d, usernames, Self,
                                                 clock + 1)
       IN
       /\ usernames' = h.usernames
       /\ created' = (created \/ h.outcome = "ok")
       /\ cash_balance' = h.account.cash_balance
       /\ holdings' = h.account.holdings
       /\ transactions' = h.account.transactions
       /\ clock' = IF h.outcome = "ok" THEN clock + 1 ELSE clock
       /\ UNCHANGED <<calls_ok, threads, accounts>>

NextRegistry ==
  \/ CreateAccount
  \/ DepositFunds
  \/ AppBuyShares
  \/ BuyShares
  \/ HandleCreateAccount_1763171346

\* the two front ends that keep a registry of usernames
SpecRegistry == Init /\ [][NextRegistry]_vars

(* ------------------------- the session front end ----------------------- *)
\* what a gr.Number may hold when its handler runs: None while it is empty
TypedAmounts == {Int_(n) : n \in FiniteAmounts} \cup {PosInf, None}

TypedQuantities ==
  {None, Int_(0), Int_(1), Int_(2), Half(0), Half(1), PosInf}

\* what may be typed into the symbol field
TypedSymbols == RawSymbols \cup {<< >>, <<"Z">>}

\* the state after a handler; _record_transaction of
\* src/.../1763171346/accounts.py reads the clock after a sleep
Session(h) ==
  /\ created' = IsAccount(h.self)
  /\ Apply(h, IF h.outcome = "ok" THEN clock + 1 ELSE clock)

\* the creation view is hidden once an account is created (lines 133-134)
HandleCreateAccount ==
  /\ ~created
  /\ \E u \in Usernames, p \in {<< >>, <<"p", "1", "#">>},
        d \in TypedAmounts :
       Session(handle_create_account(Self, u, p, d, clock + 1))
  /\ UNCHANGED calls_ok

HandleDeposit ==
  \E a \in TypedAmounts :
    /\ Session(handle_deposit(Self, a, clock + 1))
    /\ Count(handle_deposit(Self, a, clock + 1))

HandleWithdraw ==
  \E a \in TypedAmounts :
    /\ Session(handle_withdraw(Self, a, clock + 1))
    /\ Count(handle_withdraw(Self, a, clock + 1))

HandleTrade ==
  \E action \in {"BUY", "SELL"}, s \in TypedSymbols, q \in TypedQuantities :
    /\ Session(handle_trade(Self, action, s, q, clock + 1))
    /\ Count(handle_trade(Self, action, s, q, clock + 1))

NextSession ==
  \/ HandleCreateAccount
  \/ HandleDeposit
  \/ HandleWithdraw
  \/ HandleTrade

\* one browser session of src/.../1763177603/app.py
SpecSession == Init /\ [][NextSession]_vars

(* ======================================================================= *)
(* Properties                                                              *)
(* ======================================================================= *)
\* the normalized symbols the offered symbols stand for
Symbols == {clean_symbol(s) : s \in RawSymbols}

\* some deposit/withdraw/buy_shares/sell_shares call raises `error` here
SomeCallRaises(error) ==
  \/ \E a \in Amounts :
       \/ deposit(Self, a, clock).outcome = error
       \/ withdraw(Self, a, clock).outcome = error
  \/ \E s \in RawSymbols, q \in Quantities, p \in OracleResults :
       \/ buy_shares(Self, s, q, p, clock).outcome = error
       \/ sell_shares(Self, s, q, p, clock).outcome = error

\* Python's  x >= 0
GeZero(x) ==
  CASE x.k = "int" -> x.v >= 0
    [] x.k = "inf" -> TRUE
    [] OTHER -> FALSE

\* a positive finite number
PositiveFinite(x) == x.k = "int" /\ x.v > 0

IsPrefix(a, b) == Len(a) <= Len(b) /\ SubSeq(b, 1, Len(a)) = a

Reverse(seq) == [i \in 1..Len(seq) |-> seq[Len(seq) + 1 - i]]

LastTx == transactions[Len(transactions)]

\* the quantity of `symbol` the log accounts for: bought minus sold
RECURSIVE OwnedPerLog(_, _)
OwnedPerLog(log, symbol) ==
  IF log = << >> THEN 0
  ELSE LET tx == log[Len(log)]
           front == OwnedPerLog(SubSeq(log, 1, Len(log) - 1), symbol)
       IN IF tx.symbol # symbol THEN front
          ELSE IF tx.type = "BUY" THEN front + tx.quantity.v
          ELSE IF tx.type = "SELL" THEN front - tx.quantity.v
          ELSE front

(* ------------------------------- C1 ----------------------------------- *)
\* C1 (as claimed): in every state reached by creating an account and then
\* any sequence of deposit, withdraw, buy_shares and sell_shares calls,
\* cash_balance >= 0.
C1_CashNeverNegative == created => GeZero(cash_balance)

(* ------------------------------- C2 ----------------------------------- *)
\* C2: a deposit, withdraw, buy_shares or sell_shares call that raises
\* leaves cash_balance, holdings and the transaction log as they were.  (A
\* step that leaves calls_ok as it was is a call that raised, or a read.)
C2_FailureChangesNothing ==
  [][created /\ calls_ok' = calls_ok
       => UNCHANGED <<cash_balance, holdings, transactions>>]_vars

\* a state with a holding and a log of several entries in which calls fail
\* for each of the reasons: invalid argument, funds, shares, unknown symbol
C2_Witness ==
  /\ created
  /\ DOMAIN holdings # {}
  /\ Len(transactions) >= 2
  /\ SomeCallRaises("ValueError")
  /\ SomeCallRaises("InsufficientFundsError")
  /\ SomeCallRaises("InsufficientSharesError")
  /\ SomeCallRaises("InvalidSymbolError")

(* ------------------------------- C3 ----------------------------------- *)
\* C3: in every reachable state (so after every call, failed or not) every
\* entry of holdings has quantity > 0, and a symbol is a key of holdings iff
\* the quantity owned (bought minus sold) is positive.
C3_HoldingsPositive ==
  created =>
    /\ \A s \in DOMAIN holdings : holdings[s] > 0
    /\ \A s \in Symbols :
         s \in DOMAIN holdings <=> OwnedPerLog(transactions, s) > 0

\* a sale has just brought a position to zero and its entry is gone, while a
\* sale of the now unowned symbol fails
C3_Witness ==
  /\ created
  /\ LastTx.type = "SELL"
  /\ LastTx.symbol \notin DOMAIN holdings
  /\ SomeCallRaises("InsufficientSharesError")

(* ------------------------------- C4 ----------------------------------- *)
\* C4: the log grows by one entry with every deposit, withdraw, buy_shares
\* or sell_shares call that returns and by none with a call that raises:
\* after creation and n calls that returned, interleaved with any number of
\* calls that raised, it has n + 1 entries.
C4_LogLength == created => Len(transactions) = calls_ok + 1

\* two calls have returned, and calls that raise are possible
C4_Witness ==
  /\ created
  /\ calls_ok = 2
  /\ Len(transactions) = 3
  /\ SomeCallRaises("ValueError")
  /\ SomeCallRaises("InsufficientFundsError")

(* ------------------------------- C5 ----------------------------------- *)
\* C5: the log is append-only: in every step, of a mutating call or of a
\* read, the log before is a prefix of the log after.
C5_AppendOnly == [][IsPrefix(transactions, transactions')]_vars

\* a log of three entries that the history read returns in another order
C5_Witness ==
  /\ created
  /\ Len(transactions) = 3
  /\ get_transaction_history(Self).ret # transactions
  /\ get_transaction_history(Self).self.transactions = transactions

(* ------------------------------- C6 ----------------------------------- *)
\* C6 (as claimed): get_transaction_history returns the log in exactly the
\* reverse of insertion order, also when consecutive transactions carry
\* equal timestamps.
C6_HistoryIsReverse ==
  created => get_transaction_history(Self).ret = Reverse(transactions)

(* ------------------------------- C7 ----------------------------------- *)
\* C7 (as claimed): every appended transaction carries an ordering value
\* strictly greater than that of every earlier transaction, so that two
\* transactions of one clock tick are distinguished.  The only ordering
\* value _record_transaction assigns is the timestamp.
C7_OrderingValueStrictlyIncreases ==
  created =>
    \A i, j \in 1..Len(transactions) :
      i < j => transactions[i].timestamp < transactions[j].timestamp

(* ------------------------------- C8 ----------------------------------- *)
\* C8 (as claimed): an account exists only if its initial deposit was a
\* positive finite number (any other value fails validation and produces
\* no account); the new account has cash_balance = initial_deposit, empty
\* holdings and a log of exactly one DEPOSIT of initial_deposit.
C8_Creation ==
  created =>
    /\ transactions[1].type = "DEPOSIT"
    /\ PositiveFinite(transactions[1].total_amount)
    /\ Len(transactions) = 1 =>
         /\ cash_balance = transactions[1].total_amount
         /\ holdings = << >>

(* ------------------------------- C9 ----------------------------------- *)
\* the entry a deposit or withdrawal of `amount` records
CashEntry(type, amount, ts) ==
  [timestamp |-> ts, type |-> type, symbol |-> NoSymbol, quantity |-> None,
   price_per_share |-> None, total_amount |-> amount]

\* C9: deposit(amount) with amount <= 0 raises ValueError and changes
\* nothing; with amount > 0 it adds amount to cash_balance, appends one
\* DEPOSIT entry with total_amount = amount, returns the new cash_balance
\* and leaves holdings as they were.
C9_Deposit ==
  created =>
    \A a \in Amounts, ts \in Now :
      LET r == deposit(Self, a, ts) IN
      /\ IsNumber(a) /\ LeZero(a) =>
           r.outcome = "ValueError" /\ r.self = Self
      /\ IsNumber(a) /\ Gt(a, Int_(0)) =>
           /\ r.outcome = "ok"
           /\ r.self.cash_balance = FAdd(cash_balance, a)
           /\ r.self.transactions =
                Append(transactions, CashEntry("DEPOSIT", a, ts))
           /\ r.ret = r.self.cash_balance
           /\ r.self.holdings = holdings

\* a deposit has been made into an account that holds shares, and a deposit
\* of 0 is on offer
C9_Witness ==
  /\ created
  /\ Len(transactions) = 3
  /\ LastTx.type = "DEPOSIT"
  /\ DOMAIN holdings # {}
  /\ PositiveFinite(cash_balance)
  /\ deposit(Self, Int_(0), clock).outcome = "ValueError"

(* ------------------------------- C10 ---------------------------------- *)
\* Python's  a <= b
Le(a, b) == a.k # "nan" /\ b.k # "nan" /\ ~Gt(a, b)

\* C10 (as claimed): withdraw(amount) with amount > cash_balance raises
\* InsufficientFundsError and withdraws nothing; with 0 < amount <=
\* cash_balance it subtracts amount from cash_balance and appends one
\* WITHDRAWAL entry; withdrawing the full cash_balance leaves 0.
C10_Withdraw ==
  created =>
    \A a \in Amounts, ts \in Now :
      LET r == withdraw(Self, a, ts) IN
      /\ IsNumber(a) /\ Gt(a, Int_(0)) /\ Gt(a, cash_balance) =>
           r.outcome = "InsufficientFundsError" /\ r.self = Self
      /\ IsNumber(a) /\ Gt(a, Int_(0)) /\ Le(a, cash_balance) =>
           /\ r.outcome = "ok"
           /\ r.self.cash_balance = FSub(cash_balance, a)
           /\ r.self.transactions =
                Append(transactions, CashEntry("WITHDRAWAL", a, ts))
           /\ a = cash_balance => r.self.cash_balance = Int_(0)

(* ------------------------------- C11 ---------------------------------- *)
\* the entry a trade of `quantity` of `symbol` at `price` records
TradeEntry(type, symbol, quantity, price, ts) ==
  [timestamp |-> ts, type |-> type, symbol |-> symbol, quantity |-> quantity,
   price_per_share |-> price, total_amount |-> FMul(quantity, price)]

\* C11: a buy_shares(symbol, quantity) call that returns, at oracle price p,
\* subtracts quantity * p from cash_balance, adds quantity to the holding of
\* the normalized symbol (creating the entry if absent), leaves every other
\* holding as it was and appends exactly one BUY entry with the normalized
\* symbol, quantity, p and quantity * p.
C11_Buy ==
  created =>
    \A s \in RawSymbols, q \in Quantities, p \in Prices, ts \in Now :
      LET r == buy_shares(Self, s, q, p, ts)
          c == clean_symbol(s)
      IN r.outcome = "ok" =>
           /\ r.self.cash_balance = FSub(cash_balance, FMul(q, p))
           /\ DOMAIN r.self.holdings = DOMAIN holdings \cup {c}
           /\ r.self.holdings[c] = HoldingsGet(holdings, c) + q.v
           /\ \A x \in DOMAIN holdings \ {c} : r.self.holdings[x] = holdings[x]
           /\ r.self.transactions =
                Append(transactions, TradeEntry("BUY", c, q, p, ts))

\* shares of a symbol already held have been bought again, next to another
\* holding
C11_Witness ==
  /\ created
  /\ LastTx.type = "BUY"
  /\ LastTx.symbol \in DOMAIN holdings
  /\ holdings[LastTx.symbol] > LastTx.quantity.v
  /\ \E s \in Symbols, q \in Quantities, p \in Prices :
       LET r == buy_shares(Self, s, q, p, clock) IN
       r.outcome = "ok" /\ Cardinality(DOMAIN r.self.holdings) = 2

(* ------------------------------- C12 ---------------------------------- *)
\* C12: buy_shares for a symbol the oracle does not know (it returns None)
\* raises InvalidSymbolError for every positive quantity, whatever the cash
\* balance; cash, holdings and the log stay as they were.
C12_BuyUnknownSymbol ==
  created =>
    \A s \in RawSymbols, q \in Quantities, ts \in Now :
      ValidQuantity(q) =>
        LET r == buy_shares(Self, s, q, None, ts) IN
        r.outcome = "InvalidSymbolError" /\ r.self = Self

\* an account with cash left after a purchase, where the purchase of a
\* symbol the oracle does not know is refused
C12_Witness ==
  /\ created
  /\ PositiveFinite(cash_balance)
  /\ DOMAIN holdings # {}
  /\ buy_shares(Self, <<"b">>, Int_(1), None, clock).outcome
       = "InvalidSymbolError"

(* ------------------------------- C13 ---------------------------------- *)
\* C13: buy_shares raises InsufficientFundsError and changes nothing
\* whenever quantity * price > cash_balance; no smaller quantity is bought.
C13_BuyInsufficientFunds ==
  created =>
    \A s \in RawSymbols, q \in Quantities, p \in Prices, ts \in Now :
      ValidQuantity(q) /\ Gt(FMul(q, p), cash_balance) =>
        LET r == buy_shares(Self, s, q, p, ts) IN
        r.outcome = "InsufficientFundsError" /\ r.self = Self

\* one share is affordable and two are not: the purchase of two is refused
\* whole
C13_Witness ==
  /\ created
  /\ cash_balance = Int_(1)
  /\ DOMAIN holdings # {}
  /\ buy_shares(Self, <<"A">>, Int_(1), Int_(1), clock).outcome = "ok"
  /\ buy_shares(Self, <<"A">>, Int_(2), Int_(1), clock).outcome
       = "InsufficientFundsError"

(* ------------------------------- C14 ---------------------------------- *)
\* C14: sell_shares checks the owned quantity before it consults the
\* oracle: whenever quantity exceeds the owned quantity of the normalized
\* symbol (a symbol not held, or one the oracle does not know, included) the
\* call raises InsufficientSharesError and has made no oracle call.
C14_SharesCheckedFirst ==
  created =>
    \A s \in RawSymbols, q \in Quantities, p \in OracleResults, ts \in Now :
      ValidQuantity(q) /\ q.v > HoldingsGet(holdings, clean_symbol(s)) =>
        LET r == sell_shares(Self, s, q, p, ts) IN
        /\ r.outcome = "InsufficientSharesError"
        /\ r.calls = 0
        /\ r.self = Self

\* one share of A is held: selling two of A, or one of the unheld B, is
\* refused whatever the oracle would have said
C14_Witness ==
  /\ created
  /\ DOMAIN holdings = {<<"A">>}
  /\ holdings[<<"A">>] = 1
  /\ sell_shares(Self, <<"a", " ">>, Int_(2), None, clock).outcome
       = "InsufficientSharesError"
  /\ sell_shares(Self, <<"b">>, Int_(1), OracleRaises, clock).outcome
       = "InsufficientSharesError"

(* ------------------------------- C15 ---------------------------------- *)
\* C15: a sell_shares(symbol, quantity) call that returns, at oracle price
\* p, adds quantity * p to cash_balance, takes quantity from the holding of
\* the normalized symbol, appends exactly one SELL entry, and removes the
\* symbol's entry exactly when nothing remains (otherwise the entry keeps
\* the positive remainder); the other holdings stay as they were.
C15_Sell ==
  created =>
    \A s \in RawSymbols, q \in Quantities, p \in Prices, ts \in Now :
      LET r == sell_shares(Self, s, q, p, ts)
          c == clean_symbol(s)
      IN r.outcome = "ok" =>
           LET left == holdings[c] - q.v IN
           /\ r.self.cash_balance = FAdd(cash_balance, FMul(q, p))
           /\ r.self.transactions =
                Append(transactions, TradeEntry("SELL", c, q, p, ts))
           /\ left >= 0
           /\ c \in DOMAIN r.self.holdings <=> left > 0
           /\ left > 0 => r.self.holdings[c] = left
           /\ DOMAIN r.self.holdings \ {c} = DOMAIN holdings \ {c}
           /\ \A x \in DOMAIN holdings \ {c} : r.self.holdings[x] = holdings[x]

\* one of two shares has been sold and the entry is kept with the remainder;
\* selling that remainder removes it
C15_Witness ==
  /\ created
  /\ LastTx.type = "SELL"
  /\ LastTx.symbol \in DOMAIN holdings
  /\ holdings[LastTx.symbol] = 1
  /\ LET r == sell_shares(Self, LastTx.symbol, Int_(1), Int_(2), clock) IN
     r.outcome = "ok" /\ LastTx.symbol \notin DOMAIN r.self.holdings

(* ------------------------------- C16 ---------------------------------- *)
\* every BUY and SELL entry records total_amount = quantity * recorded price
TradesConsistent(log) ==
  \A i \in 1..Len(log) :
    log[i].type \in {"BUY", "SELL"} =>
      log[i].total_amount = FMul(log[i].quantity, log[i].price_per_share)

\* C16: a buy_shares or sell_shares call consults the oracle at most once,
\* and exactly once when it returns; the price obtained is the one charged
\* or credited, the one recorded and the one in the receipt; so in every
\* log, whatever the oracle quoted from call to call, each trade's
\* total_amount is quantity * recorded price, and it is the cash change.
C16_OnePrice ==
  created =>
    /\ TradesConsistent(transactions)
    /\ \A s \in RawSymbols, q \in Quantities, p \in OracleResults :
         LET b == buy_shares(Self, s, q, p, clock)
             e == sell_shares(Self, s, q, p, clock)
             bought == b.self.transactions[Len(b.self.transactions)]
             sold == e.self.transactions[Len(e.self.transactions)]
         IN
         /\ b.calls <= 1 /\ e.calls <= 1
         /\ b.outcome = "ok" =>
              /\ b.calls = 1
              /\ bought.price_per_share = p /\ b.ret.price_per_share = p
              /\ bought.total_amount = FMul(q, p) /\ b.ret.total = FMul(q, p)
              /\ b.self.cash_balance = FSub(cash_balance, bought.total_amount)
         /\ e.outcome = "ok" =>
              /\ e.calls = 1
              /\ sold.price_per_share = p /\ e.ret.price_per_share = p
              /\ sold.total_amount = FMul(q, p) /\ e.ret.total = FMul(q, p)
              /\ e.self.cash_balance = FAdd(cash_balance, sold.total_amount)

\* shares bought at one price have been sold at another
C16_Witness ==
  /\ created
  /\ Len(transactions) = 3
  /\ transactions[2].type = "BUY"
  /\ transactions[3].type = "SELL"
  /\ transactions[2].symbol = transactions[3].symbol
  /\ transactions[2].price_per_share # transactions[3].price_per_share
  /\ PositiveFinite(cash_balance)

(* ------------------------------- C17 ---------------------------------- *)
\* a symbol in normalized form: no lowercase letter, no space at either end
IsNormalized(s) ==
  /\ \A i \in 1..Len(s) : s[i] \notin {"a", "b"}
  /\ s # << >> => s[1] # " " /\ s[Len(s)] # " "

\* s1 and s2 are case or surrounding-whitespace variants of one symbol
SameInstrument(s1, s2) == Strip(Upper(s1)) = Strip(Upper(s2))

\* C17: every key of holdings and every symbol recorded in the log is
\* uppercased and trimmed, and a buy or a sell issued with any case or
\* whitespace variant of a symbol does what it does with any other variant:
\* the variants act on one holdings entry.
C17_Normalized ==
  created =>
    /\ \A k \in DOMAIN holdings : IsNormalized(k)
    /\ \A i \in 1..Len(transactions) :
         transactions[i].type \in {"BUY", "SELL"} =>
           IsNormalized(transactions[i].symbol)
    /\ \A s1, s2 \in RawSymbols :
         s1 # s2 /\ SameInstrument(s1, s2) =>
           \A q \in Quantities, p \in OracleResults :
             /\ buy_shares(Self, s1, q, p, clock)
                  = buy_shares(Self, s2, q, p, clock)
             /\ sell_shares(Self, s1, q, p, clock)
                  = sell_shares(Self, s2, q, p, clock)

\* two purchases have built one position of 2 under the key "A", and a sale
\* typed "a " closes it
C17_Witness ==
  /\ created
  /\ Len(transactions) = 3
  /\ transactions[2].type = "BUY" /\ transactions[3].type = "BUY"
  /\ DOMAIN holdings = {<<"A">>}
  /\ holdings[<<"A">>] = 2
  /\ LET r == sell_shares(Self, <<"a", " ">>, Int_(2), Int_(1), clock) IN
     r.outcome = "ok" /\ r.self.holdings = << >>

(* ------------------------------- C18 ---------------------------------- *)
\* C18 (as claimed): from any reachable state, a buy of quantity Q of S that
\* returns, followed at once by a sell of Q of S at the same price, restores
\* cash_balance and the whole holdings map, and the log has gained exactly
\* one BUY and one SELL entry.
C18_RoundTrip ==
  created =>
    \A s \in RawSymbols, q \in Quantities, p \in Prices :
      LET b == buy_shares(Self, s, q, p, clock)
          e == sell_shares(b.self, s, q, p, clock)
          n == Len(transactions)
      IN b.outcome = "ok" =>
           /\ e.outcome = "ok"
           /\ e.self.cash_balance = cash_balance
           /\ e.self.holdings = holdings
           /\ Len(e.self.transactions) = n + 2
           /\ SubSeq(e.self.transactions, 1, n) = transactions
           /\ e.self.transactions[n + 1].type = "BUY"
           /\ e.self.transactions[n + 2].type = "SELL"

(* ------------------------------- C19 ---------------------------------- *)
\* the sum of total_amount over the entries of `type`, added up in log
\* order starting from `acc`
RECURSIVE TotalFrom(_, _, _)
TotalFrom(acc, log, type) ==
  IF log = << >> THEN acc
  ELSE TotalFrom(
         IF Head(log).type = type THEN FAdd(acc, Head(log).total_amount)
         ELSE acc,
         Tail(log), type)

\* the deposits of the log minus its withdrawals
DepositsMinusWithdrawals(log) ==
  FSub(TotalFrom(Int_(0), log, "DEPOSIT"),
       TotalFrom(Int_(0), log, "WITHDRAWAL"))

\* the oracle answers with which a summary returns
Quotes == [DOMAIN holdings -> Prices \cup {None}]

\* C19: in every reachable state the net_deposits a portfolio summary
\* returns is the sum of total_amount over all DEPOSIT entries of the log
\* minus the sum over all WITHDRAWAL entries: every deposit and withdrawal
\* made so far is in it.
C19_NetDeposits ==
  created =>
    \A prices \in Quotes :
      get_portfolio_summary(Self, prices).ret.net_deposits
        = DepositsMinusWithdrawals(transactions)

\* a deposit and a withdrawal have followed the initial deposit
C19_Witness ==
  /\ created
  /\ Len(transactions) = 3
  /\ \E i, j \in 2..3 :
       transactions[i].type = "DEPOSIT" /\ transactions[j].type = "WITHDRAWAL"
  /\ PositiveFinite(cash_balance)

(* ------------------------------- C20 ---------------------------------- *)
\* C20 (as claimed): in every generated variant of get_portfolio_summary,
\* profit_loss is total_portfolio_value minus the net deposits (deposits
\* minus withdrawals); so, at unchanged prices, a deposit or a withdrawal
\* that returns leaves profit_loss as it was.
C20_ProfitLoss ==
  created =>
    \A prices \in Quotes :
      LET net == DepositsMinusWithdrawals(transactions)
          this == get_portfolio_summary(Self, prices).ret
          that == get_portfolio_summary_1763111947(Self, prices).ret
      IN
      /\ this.profit_loss = FSub(this.total_portfolio_value, net)
      /\ that.profit_loss = FSub(that.total_portfolio_value, net)
      /\ \A a \in Amounts :
           LET d == deposit(Self, a, clock)
               w == withdraw(Self, a, clock)
           IN
           /\ d.outcome = "ok" =>
                get_portfolio_summary(d.self, prices).ret.profit_loss
                  = this.profit_loss
           /\ w.outcome = "ok" =>
                get_portfolio_summary(w.self, prices).ret.profit_loss
                  = this.profit_loss

(* ------------------------------- C21 ---------------------------------- *)
\* the value of the holdings whose price is known: quantity * price, summed
\* over those symbols only
RECURSIVE ValueOfKnown(_, _, _)
ValueOfKnown(h, prices, symbols) ==
  LET known == {s \in symbols : prices[s] # None} IN
  IF known = {} THEN Int_(0)
  ELSE LET s == CHOOSE x \in known : TRUE IN
       FAdd(FMul(Int_(h[s]), prices[s]),
            ValueOfKnown(h, prices, known \ {s}))

\* C21: in every reachable state, whatever the oracle knows, the portfolio
\* summary lists every held symbol with its quantity, total_shares_value is
\* the sum of quantity * price over the held symbols whose price is known
\* (an unknown price contributes zero), and total_portfolio_value is
\* cash_balance + total_shares_value; so in both generated ledgers cited.
C21_SummaryListsEveryHolding ==
  created =>
    \A prices \in Quotes :
      LET this == get_portfolio_summary(Self, prices).ret
          that == get_portfolio_summary_1763171346(Self, prices).ret
          known == ValueOfKnown(holdings, prices, DOMAIN holdings)
      IN
      /\ DOMAIN this.holdings_with_prices = DOMAIN holdings
      /\ \A s \in DOMAIN holdings :
           this.holdings_with_prices[s].quantity = holdings[s]
      /\ that.holdings = holdings
      /\ this.total_shares_value = known
      /\ that.total_shares_value = known
      /\ this.total_portfolio_value = FAdd(cash_balance, known)
      /\ that.total_portfolio_value = FAdd(cash_balance, known)

\* two symbols are held; the oracle knows the price of one of them only, and
\* the summary values that one and lists both
C21_Witness ==
  /\ created
  /\ Cardinality(DOMAIN holdings) = 2
  /\ \E prices \in Quotes :
       \E s, u \in DOMAIN holdings :
         LET r == get_portfolio_summary(Self, prices) IN
         /\ prices[s] = None
         /\ prices[u] \in Prices
         /\ r.outcome = "ok"
         /\ s \in DOMAIN r.ret.holdings_with_prices
         /\ r.ret.total_shares_value = FMul(Int_(holdings[u]), prices[u])

(* ------------------------------- C22 ---------------------------------- *)
\* C22: get_portfolio_summary and get_transaction_history are read-only: in
\* every reachable state, whatever the oracle does for the held symbols
\* (a price, unknown, or a failure), a call of either, and a second call
\* after it, leaves cash_balance, holdings with its set of keys, and the
\* transaction log as they were.
C22_ReadOnly ==
  created =>
    /\ \A prices \in [DOMAIN holdings -> OracleResults] :
         LET once == get_portfolio_summary(Self, prices).self IN
         /\ once = Self
         /\ DOMAIN once.holdings = DOMAIN holdings
         /\ get_portfolio_summary(once, prices).self = Self
         /\ get_transaction_history(once).self = Self
    /\ LET once == get_transaction_history(Self).self IN
       /\ once = Self
       /\ get_transaction_history(once).self = Self

\* a traded symbol is held and its price is unknown: the summary returns,
\* and the history is not in log order
C22_Witness ==
  /\ created
  /\ DOMAIN holdings # {}
  /\ TradedSymbols(transactions) # {}
  /\ get_transaction_history(Self).ret # transactions
  /\ get_portfolio_summary(Self, [s \in DOMAIN holdings |-> None]).outcome = "ok"

(* ------------------------------- C23 ---------------------------------- *)
\* C23 (as claimed): when the price oracle itself fails during buy_shares,
\* sell_shares or get_portfolio_summary, the caller is given an
\* oracle-unavailable error of the ledger (OracleUnavailableError), which is
\* not InvalidSymbolError; no price of zero stands in for the failure, and
\* cash_balance, holdings and the log are as they were.
C23_OracleFailure ==
  created =>
    /\ \A s \in RawSymbols, q \in Quantities :
         ValidQuantity(q) =>
           LET b == buy_shares(Self, s, q, OracleRaises, clock) IN
           /\ b.outcome = "OracleUnavailableError"
           /\ b.self = Self
    /\ \A s \in RawSymbols, q \in Quantities :
         (ValidQuantity(q) /\ q.v <= HoldingsGet(holdings, clean_symbol(s))) =>
           LET r == sell_shares(Self, s, q, OracleRaises, clock) IN
           /\ r.outcome = "OracleUnavailableError"
           /\ r.self = Self
    /\ \A prices \in [DOMAIN holdings -> OracleResults] :
         (\E s \in DOMAIN holdings : prices[s] = OracleRaises) =>
           LET r == get_portfolio_summary(Self, prices) IN
           /\ r.outcome = "OracleUnavailableError"
           /\ r.self = Self

(* ------------------------------- C24 ---------------------------------- *)
\* C24 (as claimed): withdraw, buy_shares and sell_shares calls of two
\* threads on one Account are serialized, so that no two calls pass their
\* checks against the same funds or shares: whenever both threads are out of
\* their methods, cash_balance is not below zero and every holding is above
\* zero, as after the calls made one after the other.
C24_Serialized ==
  (created /\ \A t \in Threads : threads[t].pc = "idle") =>
    /\ ~Gt(Int_(0), cash_balance)
    /\ \A s \in DOMAIN holdings : holdings[s] > 0

(* ------------------------------- C25 ---------------------------------- *)
\* a well-formed entry: a DEPOSIT or WITHDRAWAL has no symbol, quantity or
\* price; a BUY or SELL has a normalized symbol, a positive integer quantity
\* and a price; total_amount is positive
WellFormed(tx) ==
  /\ tx.type \in {"DEPOSIT", "WITHDRAWAL"} =>
       /\ tx.symbol = NoSymbol
       /\ tx.quantity = None
       /\ tx.price_per_share = None
  /\ tx.type \in {"BUY", "SELL"} =>
       /\ tx.symbol # NoSymbol
       /\ IsNormalized(tx.symbol)
       /\ ValidQuantity(tx.quantity)
       /\ IsNumber(tx.price_per_share)
  /\ Gt(tx.total_amount, Int_(0))

\* the entry a call has appended
Appended(r) == r.self.transactions[Len(r.self.transactions)]

\* C25 (as claimed): every entry of the log is well-formed, and so is the
\* entry that a deposit or a withdrawal of any amount appends when the call
\* returns; that entry's total_amount is positive and is what the call added
\* to or took from cash_balance.
C25_WellFormedLog ==
  created =>
    /\ \A i \in 1..Len(transactions) : WellFormed(transactions[i])
    /\ \A a \in Amounts \cup {NaN} :
         LET d == deposit(Self, a, clock + 1)
             w == withdraw(Self, a, clock + 1)
         IN
         /\ d.outcome = "ok" =>
              /\ WellFormed(Appended(d))
              /\ d.self.cash_balance
                   = FAdd(cash_balance, Appended(d).total_amount)
         /\ w.outcome = "ok" =>
              /\ WellFormed(Appended(w))
              /\ w.self.cash_balance
                   = FSub(cash_balance, Appended(w).total_amount)

(* ------------------------------- C26 ---------------------------------- *)
\* every trade of the log was made at the price that `quote` gives its symbol
TradedAt(log, quote) ==
  \A i \in 1..Len(log) :
    log[i].type \in {"BUY", "SELL"} =>
      log[i].price_per_share = quote[log[i].symbol]

\* C26 (as claimed): when the oracle's price of each symbol stays constant,
\* then after any sequence of deposit, withdraw, buy_shares and sell_shares
\* calls, returned or failed, the summary at those prices has
\* total_portfolio_value = net_deposits and profit_loss = 0.
C26_ConstantPrices ==
  created =>
    \A quote \in [Symbols -> Prices] :
      TradedAt(transactions, quote) =>
        LET prices == [s \in DOMAIN holdings |-> quote[s]]
            this == get_portfolio_summary(Self, prices).ret
            that == get_portfolio_summary_1763171346(Self, prices).ret
        IN
        /\ this.total_portfolio_value = this.net_deposits
        /\ this.profit_loss = Int_(0)
        /\ that.total_portfolio_value = that.net_deposits
        /\ that.profit_loss = Int_(0)

(* ------------------------------- C27 ---------------------------------- *)
\* C27 (as claimed): get_transaction_history gives the caller no mutable
\* handle on the stored log: in every reachable state, after the caller
\* removes an entry from the returned list or alters a field of one of its
\* entries, the ledger's log is as it was, and a later history or summary
\* call returns what it would have returned.
C27_NoMutableHandle ==
  created =>
    LET history == HistoryRefs(Self)
        prices == [s \in DOMAIN holdings |-> None]
    IN
    /\ [i \in 1..Len(history) |-> transactions[history[i]]]
         = get_transaction_history(Self).ret
    /\ \A i \in 1..Len(history) :
         /\ caller_removes_entry(Self, history, i) = Self
         /\ \A a \in {Int_(1), Int_(2)} :
              LET after == caller_alters_entry(Self, history, i, a) IN
              /\ after.transactions = transactions
              /\ get_transaction_history(after).ret
                   = get_transaction_history(Self).ret
              /\ get_portfolio_summary(after, prices).ret
                   = get_portfolio_summary(Self, prices).ret

(* ------------------------------- C28 ---------------------------------- *)
\* the quantity of `symbol` in the listing of a summary
Listed(summary, symbol) ==
  IF symbol \in DOMAIN summary.holdings_with_prices
  THEN summary.holdings_with_prices[symbol].quantity
  ELSE 0

\* C28 (as claimed): a trade is atomic towards readers: whenever a thread
\* calls get_portfolio_summary and get_transaction_history, while another
\* thread may be inside buy_shares or sell_shares, the holdings listed are
\* those that the BUY and SELL entries of the history account for; no state
\* is seen in which a trade has changed cash_balance or holdings and its
\* transaction is not recorded.
C28_TradeAtomic ==
  created =>
    LET summary ==
          get_portfolio_summary(Self, [s \in DOMAIN holdings |-> None]).ret
        history == get_transaction_history(Self).ret
    IN \A s \in Symbols : Listed(summary, s) = OwnedPerLog(history, s)

(* ------------------------------- C29 ---------------------------------- *)
\* C29: the errors of buy_shares come in a fixed order. In every reachable
\* state: a quantity that is not a positive integer gives the validation
\* error and the oracle is not consulted, whatever the symbol and the
\* balance; otherwise a symbol the oracle does not know gives
\* InvalidSymbolError, whatever the balance; InsufficientFundsError is given
\* only for a valid quantity of a symbol with a price.
C29_BuyErrorOrder ==
  created =>
    \A s \in RawSymbols, q \in Quantities, p \in OracleResults :
      LET r == buy_shares(Self, s, q, p, clock) IN
      /\ ~ValidQuantity(q) => r.outcome = "ValueError" /\ r.calls = 0
      /\ (ValidQuantity(q) /\ p = None) => r.outcome = "InvalidSymbolError"
      /\ r.outcome = "InsufficientFundsError" =>
           (ValidQuantity(q) /\ p \in Prices)

\* the balance is zero, so that every purchase lacks funds: a bad quantity
\* of an unknown symbol is a validation error, a good quantity of an unknown
\* symbol an InvalidSymbolError, a good quantity of a known one lacks funds
C29_Witness ==
  /\ created
  /\ cash_balance = Int_(0)
  /\ \E s \in RawSymbols :
       /\ buy_shares(Self, s, Int_(0), None, clock).outcome = "ValueError"
       /\ buy_shares(Self, s, Int_(1), None, clock).outcome
            = "InvalidSymbolError"
       /\ buy_shares(Self, s, Int_(1), Int_(1), clock).outcome
            = "InsufficientFundsError"

(* ------------------------------- C30 ---------------------------------- *)
\* C30: in every reachable state, sell_shares of a quantity that does not
\* exceed the owned quantity of a held symbol, when the oracle answers
\* "unknown" for it, fails with InvalidSymbolError and leaves cash_balance,
\* the holding and the log as they were: the position is not sold at price
\* zero and not removed.
C30_SellUnpriced ==
  created =>
    \A s \in RawSymbols, q \in Quantities :
      (/\ ValidQuantity(q)
       /\ clean_symbol(s) \in DOMAIN holdings
       /\ q.v <= holdings[clean_symbol(s)]) =>
        LET r == sell_shares(Self, s, q, None, clock) IN
        /\ r.outcome = "InvalidSymbolError"
        /\ r.self = Self
        /\ r.self.holdings[clean_symbol(s)] = holdings[clean_symbol(s)]

\* a symbol bought at a known price is held, and selling all of it when the
\* oracle no longer knows it raises InvalidSymbolError
C30_Witness ==
  /\ created
  /\ \E s \in RawSymbols :
       /\ clean_symbol(s) \in DOMAIN holdings
       /\ \E i \in 1..Len(transactions) :
            /\ transactions[i].type = "BUY"
            /\ transactions[i].symbol = clean_symbol(s)
       /\ sell_shares(Self, s, Int_(holdings[clean_symbol(s)]), None,
                      clock).outcome = "InvalidSymbolError"

(* ------------------------------- C31 ---------------------------------- *)
\* C31 (as claimed): in the first-generation ledger, buy_shares with the
\* module's get_share_price rejects a symbol that the price table does not
\* have: the call does not return normally and leaves holdings and the log
\* of the account as they were, so every held symbol is one of the table.
C31_UnknownSymbolRejected ==
  \A u \in DOMAIN accounts :
    /\ DOMAIN accounts[u].holdings \subseteq DOMAIN stock_prices
    /\ \A s \in RawSymbols \ DOMAIN stock_prices, q \in Quantities :
         LET r == buy_shares_1763108370(accounts[u], s, q,
                                        get_share_price_1763108370(s))
         IN /\ r.outcome # "ok"
            /\ r.self.holdings = accounts[u].holdings
            /\ r.self.transactions = accounts[u].transactions

(* ------------------------------- C32 ---------------------------------- *)
\* Python's  a == b  on floats (nan equals nothing)
FEq(a, b) == a.k # "nan" /\ b.k # "nan" /\ a = b

\* the DEPOSIT and SELL amounts of the log minus its WITHDRAWAL and BUY
\* amounts
CashPerLog(log) ==
  FSub(FAdd(TotalFrom(Int_(0), log, "DEPOSIT"),
            TotalFrom(Int_(0), log, "SELL")),
       FAdd(TotalFrom(Int_(0), log, "WITHDRAWAL"),
            TotalFrom(Int_(0), log, "BUY")))

\* C32 (as claimed): in every reachable state cash_balance equals the sum
\* of total_amount over the DEPOSIT and SELL entries of the log minus the
\* sum over its WITHDRAWAL and BUY entries.
C32_CashPerLog == created => FEq(cash_balance, CashPerLog(transactions))

(* ------------------------------- C33 ---------------------------------- *)
\* the sum of the quantities of the entries of `type` for `symbol`
RECURSIVE QuantityOf(_, _, _)
QuantityOf(log, type, symbol) ==
  IF log = << >> THEN 0
  ELSE (IF Head(log).type = type /\ Head(log).symbol = symbol
        THEN Head(log).quantity.v ELSE 0)
       + QuantityOf(Tail(log), type, symbol)

\* C33: in every reachable state, for every symbol S, the quantity held (0
\* if S is not a key of holdings) is the sum of the quantities of the BUY
\* entries for S minus the sum of the quantities of the SELL entries for S.
C33_HoldingsPerLog ==
  created =>
    \A s \in Symbols \cup DOMAIN holdings :
      HoldingsGet(holdings, s)
        = QuantityOf(transactions, "BUY", s)
            - QuantityOf(transactions, "SELL", s)

\* part of a position has been sold and the rest is still held
C33_Witness ==
  /\ created
  /\ \E s \in DOMAIN holdings :
       /\ QuantityOf(transactions, "SELL", s) > 0
       /\ holdings[s] > 0

(* ------------------------------- C34 ---------------------------------- *)
\* C34: in every reachable state a buy_shares call with a valid quantity of
\* a priced symbol whose total cost equals cash_balance returns and leaves
\* cash_balance 0; the call is refused for lack of funds only if the total
\* cost is greater than cash_balance.
C34_FundsBoundary ==
  created =>
    \A s \in RawSymbols, q \in Quantities, p \in Prices :
      ValidQuantity(q) =>
        LET r == buy_shares(Self, s, q, p, clock) IN
        /\ FMul(q, p) = cash_balance =>
             /\ r.outcome = "ok"
             /\ r.self.cash_balance = Int_(0)
             /\ r.self.holdings[clean_symbol(s)]
                  = HoldingsGet(holdings, clean_symbol(s)) + q.v
        /\ r.outcome = "InsufficientFundsError" =>
             Gt(FMul(q, p), cash_balance)

\* a purchase has just spent the whole balance
C34_Witness ==
  /\ created
  /\ LastTx.type = "BUY"
  /\ cash_balance = Int_(0)
  /\ PositiveFinite(LastTx.total_amount)

(* ------------------------------- C35 ---------------------------------- *)
\* a password that passes the rule of create_account
StrongOne == <<"P", "a", "s", "s", "#", "1", "2", "3">>

\* C35: in the registry front ends a username is bound to at most one
\* account.  In every reachable state: create_account with a registered
\* username fails and leaves the registry, and with it the balance,
\* holdings and log of every account, as they were; whenever create_account
\* changes the registry it has succeeded, and the change is the new account
\* under the new username.  handle_create_account with a registered
\* username reports an error (that the name is taken, when a password is
\* given) and leaves the set of usernames and the session's account as they
\* were, and a username is added to the set only together with the account
\* that was constructed for it.
C35_OneAccountPerUsername ==
  /\ \A u \in Usernames, e \in Emails, p \in Passwords, c \in Passwords :
       LET r == create_account(accounts, u, e, p, c) IN
       /\ u \in DOMAIN accounts =>
            ~r.success /\ r.accounts = accounts
       /\ ~r.success => r.accounts = accounts
       /\ r.success =>
            /\ u \notin DOMAIN accounts
            /\ DOMAIN r.accounts = DOMAIN accounts \cup {u}
            /\ r.accounts[u] = Account_1763108370
            /\ \A n \in DOMAIN accounts : r.accounts[n] = accounts[n]
  /\ \A u \in Usernames, p \in Passwords, d \in Amounts :
       LET h == handle_create_account_1763171346(u, p, d, usernames, Self,
                                                 clock + 1)
       IN
       /\ u \in usernames =>
            /\ h.outcome = IF p = << >> THEN "empty" ELSE "taken"
            /\ h.usernames = usernames
            /\ h.account = Self
       /\ h.outcome # "ok" => h.usernames = usernames /\ h.account = Self
       /\ h.outcome = "ok" =>
            /\ u \notin usernames
            /\ h.usernames = usernames \cup {u}
            /\ Account_init(d, clock + 1).outcome = "ok"
            /\ h.account = Account_init(d, clock + 1).self

\* a registered account holds shares, and its username is offered again
\* with acceptable fields; a username of the session's set is offered again
\* with an acceptable deposit
C35_Witness ==
  /\ \E u \in DOMAIN accounts :
       /\ accounts[u].holdings # << >>
       /\ accounts[u].transactions # << >>
       /\ create_account(accounts, u, <<"e">>, StrongOne, StrongOne).message
            = "Username already exists."
  /\ created
  /\ \E u \in usernames :
       handle_create_account_1763171346(u, StrongOne, Int_(1), usernames,
                                        Self, clock + 1).outcome = "taken"

(* ------------------------------- C36 ---------------------------------- *)
\* the sum of the Total Value column of the holdings table
RECURSIVE TableTotal(_)
TableTotal(df) ==
  IF DOMAIN df = {} THEN Int_(0)
  ELSE LET s == CHOOSE n \in DOMAIN df : TRUE IN
       FAdd(TableTotal([n \in DOMAIN df \ {s} |-> df[n]]), df[s].total_value)

\* C36 (as claimed): in every reachable state, whatever the oracle answers
\* at the lookups of one refresh_portfolio_view (its price may change
\* between two lookups), the total values shown in the holdings table add
\* up to the total_shares_value of the summary shown beside them.
C36_ViewConsistent ==
  created =>
    \A prices \in Quotes, later \in Quotes :
      TableTotal(refresh_portfolio_view(Self, prices, later).p_holdings_df)
        = get_portfolio_summary_1763171346(Self, prices).ret
            .total_shares_value

(* ------------------------------- C37 ---------------------------------- *)
\* handler result h leaves the session as it is unless it succeeded, and
\* without an account it is the report that there is none
C37_Kept(h) ==
  /\ h.outcome # "ok" => h.self = Self
  /\ ~created =>
       /\ h.outcome = "Error: No active account."
       /\ h.ops = 0
       /\ h.self = Self
       /\ ~IsAccount(h.self)

\* C37: in the session front end, in every reachable state: while no
\* account is set, handle_deposit, handle_withdraw and handle_trade report
\* "No active account", call no ledger method and leave account_state
\* unset, and handle_create_account sets it exactly when the creation
\* succeeds; once an account is set, a handler that does not succeed leaves
\* account_state and the account's cash balance, holdings and log as they
\* were.
C37_Session ==
  /\ \A a \in TypedAmounts :
       /\ C37_Kept(handle_deposit(Self, a, clock + 1))
       /\ C37_Kept(handle_withdraw(Self, a, clock + 1))
  /\ \A action \in {"BUY", "SELL"}, s \in TypedSymbols,
        q \in TypedQuantities :
       C37_Kept(handle_trade(Self, action, s, q, clock + 1))
  /\ \A u \in Usernames, p \in Passwords, d \in TypedAmounts :
       LET h == handle_create_account(Self, u, p, d, clock + 1) IN
       /\ h.outcome # "ok" => h.self = Self
       /\ h.outcome = "ok" =>
            /\ Account_init(d, clock + 1).outcome = "ok"
            /\ h.self = Account_init(d, clock + 1).self

\* an account is set and has traded, and handlers fail before the ledger is
\* called as well as inside the ledger call
C37_Witness ==
  /\ created
  /\ DOMAIN holdings # {}
  /\ \E a \in TypedAmounts :
       /\ handle_withdraw(Self, a, clock + 1).outcome
            = "InsufficientFundsError"
       /\ handle_withdraw(Self, a, clock + 1).ops = 1
  /\ \E s \in TypedSymbols, q \in TypedQuantities :
       /\ handle_trade(Self, "SELL", s, q, clock + 1).outcome
            = "InsufficientSharesError"
       /\ handle_trade(Self, "BUY", s, q, clock + 1).outcome
            = "InvalidSymbolError"
  /\ handle_trade(Self, "BUY", <<"A">>, PosInf, clock + 1).outcome
       = "OverflowError"

====
